---- MODULE Spec2Model ----
(***************************************************************************)
(* Zodirectus: generation of Zod validators and TypeScript types from      *)
(* Directus collection metadata.                                           *)
(*                                                                         *)
(* Text is modelled as TLA+ strings built exactly as the template literals *)
(* of the generators build it; the lexical scans of DependencyUtils and    *)
(* ImportUtils run over that text.                                         *)
(***************************************************************************)
EXTENDS Integers, Sequences, FiniteSets, TLC

(***************************************************************************)
(* JavaScript string primitives                                            *)
(***************************************************************************)
LowerChars == "abcdefghijklmnopqrstuvwxyz"
UpperChars == "ABCDEFGHIJKLMNOPQRSTUVWXYZ"

CharAt(s, i) == SubSeq(s, i, i)

IsLower(c) == c \in {CharAt(LowerChars, i) : i \in 1..26}
IsUpper(c) == c \in {CharAt(UpperChars, i) : i \in 1..26}

ToUpperChar(c) ==
  IF IsLower(c) THEN CharAt(UpperChars, CHOOSE i \in 1..26 : CharAt(LowerChars, i) = c) ELSE c
ToLowerChar(c) ==
  IF IsUpper(c) THEN CharAt(LowerChars, CHOOSE i \in 1..26 : CharAt(UpperChars, i) = c) ELSE c

RECURSIVE toUpperCase(_)
toUpperCase(s) == IF s = "" THEN "" ELSE ToUpperChar(CharAt(s, 1)) \o toUpperCase(Tail(s))

RECURSIVE toLowerCase(_)
toLowerCase(s) == IF s = "" THEN "" ELSE ToLowerChar(CharAt(s, 1)) \o toLowerCase(Tail(s))

\* s.slice(from) and s.slice(0, -n), on 1-based positions
DropFirst(s, n) == SubSeq(s, n + 1, Len(s))
DropLast(s, n) == SubSeq(s, 1, Len(s) - n)

startsWith(s, p) == Len(s) >= Len(p) /\ SubSeq(s, 1, Len(p)) = p
endsWith(s, p) == Len(s) >= Len(p) /\ SubSeq(s, Len(s) - Len(p) + 1, Len(s)) = p

\* s.indexOf(p), 1-based; 0 when p does not occur
indexOf(s, p) ==
  LET hits == {i \in 1..(Len(s) - Len(p) + 1) : SubSeq(s, i, i + Len(p) - 1) = p}
  IN  IF hits = {} THEN 0 ELSE CHOOSE i \in hits : \A j \in hits : i <= j

includes(s, p) == \E i \in 1..(Len(s) - Len(p) + 1) : SubSeq(s, i, i + Len(p) - 1) = p

\* s.replace(p, r) with a string pattern: the first occurrence only
replaceFirst(s, p, r) ==
  LET i == indexOf(s, p)
  IN  IF i = 0 THEN s ELSE SubSeq(s, 1, i - 1) \o r \o SubSeq(s, i + Len(p), Len(s))

\* array.includes(x) on a sequence
SeqIncludes(seq, x) == \E i \in 1..Len(seq) : seq[i] = x

RECURSIVE JoinWith(_, _)
JoinWith(seq, sep) ==
  IF seq = <<>> THEN ""
  ELSE IF Len(seq) = 1 THEN seq[1]
  ELSE seq[1] \o sep \o JoinWith(Tail(seq), sep)

\* s.split(sep) with a one-character string separator
RECURSIVE SplitChar(_, _)
SplitChar(s, sep) ==
  LET i == indexOf(s, sep)
  IN  IF i = 0 THEN <<s>>
      ELSE <<SubSeq(s, 1, i - 1)>> \o SplitChar(DropFirst(s, i), sep)

(***************************************************************************)
(* StringUtils                                                             *)
(***************************************************************************)
\* str.split(/[-_\s]+/): a maximal run of separators is one cut
RECURSIVE SplitNameSeps(_, _)
SplitNameSeps(s, cur) ==
  IF s = "" THEN <<cur>>
  ELSE IF CharAt(s, 1) \in {"-", "_", " "}
       THEN IF Len(s) >= 2 /\ CharAt(s, 2) \in {"-", "_", " "}
            THEN SplitNameSeps(Tail(s), cur)
            ELSE <<cur>> \o SplitNameSeps(Tail(s), "")
       ELSE SplitNameSeps(Tail(s), cur \o CharAt(s, 1))

toPascalCase(str) ==
  LET Capitalize(word) ==
        IF word = "" THEN "" ELSE ToUpperChar(CharAt(word, 1)) \o toLowerCase(Tail(word))
      Join(words) == JoinWith([k \in 1..Len(words) |-> Capitalize(words[k])], "")
  IN  Join(SplitNameSeps(str, ""))

\* .replace(/([a-z])([A-Z])/g, '$1-$2')
RECURSIVE KebabCamel(_)
KebabCamel(s) ==
  IF Len(s) < 2 THEN s
  ELSE IF IsLower(CharAt(s, 1)) /\ IsUpper(CharAt(s, 2))
       THEN CharAt(s, 1) \o "-" \o CharAt(s, 2) \o KebabCamel(DropFirst(s, 2))
       ELSE CharAt(s, 1) \o KebabCamel(Tail(s))

\* .replace(/([A-Z])([A-Z][a-z])/g, '$1-$2')
RECURSIVE KebabPascal(_)
KebabPascal(s) ==
  IF Len(s) < 3 THEN s
  ELSE IF IsUpper(CharAt(s, 1)) /\ IsUpper(CharAt(s, 2)) /\ IsLower(CharAt(s, 3))
       THEN CharAt(s, 1) \o "-" \o SubSeq(s, 2, 3) \o KebabPascal(DropFirst(s, 3))
       ELSE CharAt(s, 1) \o KebabPascal(Tail(s))

\* .replace(/[\s_]+/g, '-')
RECURSIVE KebabSeps(_)
KebabSeps(s) ==
  IF s = "" THEN ""
  ELSE IF CharAt(s, 1) \in {"_", " "}
       THEN IF Len(s) >= 2 /\ CharAt(s, 2) \in {"_", " "}
            THEN KebabSeps(Tail(s))
            ELSE "-" \o KebabSeps(Tail(s))
       ELSE CharAt(s, 1) \o KebabSeps(Tail(s))

toKebabCase(str) == toLowerCase(KebabSeps(KebabPascal(KebabCamel(str))))

irregularPlurals ==
  << <<"children", "child">>, <<"people", "person">>, <<"men", "man">>,
     <<"women", "woman">>, <<"feet", "foot">>, <<"teeth", "tooth">>,
     <<"mice", "mouse">>, <<"geese", "goose">>, <<"oxen", "ox">>,
     <<"data", "datum">>, <<"media", "medium">>, <<"criteria", "criterion">>,
     <<"phenomena", "phenomenon">>, <<"indices", "index">>,
     <<"vertices", "vertex">>, <<"matrices", "matrix">>,
     <<"analyses", "analysis">>, <<"bases", "base">>,
     <<"diagnoses", "diagnosis">>, <<"theses", "thesis">>,
     <<"crises", "crisis">>, <<"oases", "oasis">> >>

IsIrregular(lowerWord) == \E i \in 1..Len(irregularPlurals) : irregularPlurals[i][1] = lowerWord
IrregularOf(lowerWord) ==
  irregularPlurals[CHOOSE i \in 1..Len(irregularPlurals) : irregularPlurals[i][1] = lowerWord][2]

\* a faulty variant: the singular is returned as the table stores it
capitalizeFirst_asStored(singular, original) == singular

capitalizeFirst(singular, original) ==
  LET Capitalized(lowerSingular) ==
        IF includes(lowerSingular, "directus")
        THEN replaceFirst(lowerSingular, "directus", "Directus")
        ELSE ToUpperChar(CharAt(singular, 1)) \o Tail(singular)
  IN  IF original = toUpperCase(original) THEN toUpperCase(singular)
      ELSE IF CharAt(original, 1) = ToUpperChar(CharAt(original, 1))
           THEN Capitalized(toLowerCase(singular))
           ELSE singular

AllLower(s) == \A i \in 1..Len(s) : IsLower(CharAt(s, i))

\* start of the match of /Directus([A-Z][a-z]*)$/ in word, 0 when none
DirectusTailAt(word) ==
  LET hits == {i \in 1..(Len(word) - 8) :
                 /\ SubSeq(word, i, i + 7) = "Directus"
                 /\ IsUpper(CharAt(word, i + 8))
                 /\ AllLower(SubSeq(word, i + 9, Len(word)))}
  IN  IF hits = {} THEN 0 ELSE CHOOSE i \in hits : \A j \in hits : i <= j

\* word.split(/(?=[A-Z])/)
RECURSIVE SplitCapitals(_, _)
SplitCapitals(s, cur) ==
  IF s = "" THEN (IF cur = "" THEN <<>> ELSE <<cur>>)
  ELSE IF IsUpper(CharAt(s, 1)) /\ cur # ""
       THEN <<cur>> \o SplitCapitals(Tail(s), CharAt(s, 1))
       ELSE SplitCapitals(Tail(s), cur \o CharAt(s, 1))

\* /^[A-Z][a-z]*[A-Z]/ matches word
IsCompound(word) ==
  /\ Len(word) >= 2
  /\ IsUpper(CharAt(word, 1))
  /\ \E j \in 2..Len(word) : IsUpper(CharAt(word, j)) /\ AllLower(SubSeq(word, 2, j - 1))


\* a faulty variant: every final s is removed, without the exclusion list
SuffixStem_unguarded(lowerWord) ==
  IF endsWith(lowerWord, "s") /\ Len(lowerWord) > 2 THEN DropLast(lowerWord, 1) ELSE ""

\* the plain suffix rules of toSingular, after the prefix and compound branches:
\* the singular they build before capitalizeFirst, "" when they return the word
SuffixStem(lowerWord) ==
  LET WithoutEs(withoutEs) ==
        \/ SubSeq(withoutEs, Len(withoutEs), Len(withoutEs)) \in {"s", "sh", "ch", "x", "z"}
        \/ endsWith(withoutEs, "ss")
        \/ endsWith(withoutEs, "ch")
        \/ endsWith(withoutEs, "sh")
      WithoutS(withoutS) ==
        IF \E ending \in {"glas", "clas", "mas", "pas", "gras", "ga", "bu", "acces"} :
             endsWith(withoutS, ending)
        THEN ""
        ELSE withoutS
      Ves(withoutVes) ==
        IF withoutVes \o "f" \in {"leaf", "wolf", "shelf", "calf", "half", "self",
                                  "knife", "life", "wife"}
          THEN withoutVes \o "f"
        ELSE IF withoutVes \in {"leaf", "wolf", "shelf", "calf", "half", "self"}
          THEN withoutVes
        ELSE ""
      Tail3(ies, ves, fromVes) ==
        IF ies /\ Len(lowerWord) > 4 THEN DropLast(lowerWord, 3) \o "y"
        ELSE IF ves /\ Len(lowerWord) > 4 /\ fromVes # "" THEN fromVes
        ELSE IF /\ endsWith(lowerWord, "es")
                /\ ~ies
                /\ ~ves
                /\ Len(lowerWord) > 3
                /\ WithoutEs(DropLast(lowerWord, 2))
          THEN DropLast(lowerWord, 2)
        ELSE IF endsWith(lowerWord, "s") /\ Len(lowerWord) > 2
          THEN WithoutS(DropLast(lowerWord, 1))
        ELSE ""
  IN  Tail3(endsWith(lowerWord, "ies"), endsWith(lowerWord, "ves"), Ves(DropLast(lowerWord, 3)))

\* the compound-word branch; "" when it does not return
CompoundRule(word) ==
  LET Rule(parts, lastPart) ==
        IF ~(IsCompound(word) /\ Len(parts) >= 2) THEN ""
        ELSE IF endsWith(word, "s") /\ ~endsWith(word, "ies")
                /\ endsWith(lastPart, "s") /\ Len(lastPart) > 1
          THEN JoinWith(SubSeq(parts, 1, Len(parts) - 1), "") \o DropLast(lastPart, 1)
        ELSE IF endsWith(word, "ies") /\ endsWith(lastPart, "ies") /\ Len(lastPart) > 3
          THEN JoinWith(SubSeq(parts, 1, Len(parts) - 1), "") \o DropLast(lastPart, 3) \o "y"
        ELSE ""
      Split(parts) == Rule(parts, IF parts = <<>> THEN "" ELSE parts[Len(parts)])
  IN  Split(SplitCapitals(word, ""))

\* the 'Directus' prefix branch; "" when it does not return
DirectusRule(word) ==
  IF ~(startsWith(word, "Directus") /\ Len(word) > 8) \/ DirectusTailAt(word) = 0 THEN ""
  ELSE IF endsWith(word, "s") /\ ~endsWith(word, "ies")
    THEN DropLast(word, 1)
  ELSE IF endsWith(word, "ies")
    THEN DropLast(word, 3) \o "y"
  ELSE ""

\* a faulty variant: the last letter is removed whatever it is
toSingular_dropLast(word) == IF word = "" THEN "" ELSE DropLast(word, 1)

StringUtils_toSingular(word) ==
  LET Suffix(stem) == IF stem = "" THEN word ELSE capitalizeFirst(stem, word)
      Rules(lowerWord, directus, compound) ==
        IF IsIrregular(lowerWord) THEN capitalizeFirst(IrregularOf(lowerWord), word)
        ELSE IF directus # "" THEN directus
        ELSE IF compound # "" THEN compound
        ELSE Suffix(SuffixStem(lowerWord))
  IN  IF Len(word) <= 1 THEN word
      ELSE Rules(toLowerCase(word), DirectusRule(word), CompoundRule(word))

\* TypeGenerator's private toSingular
TypeGenerator_toSingular(word) ==
  IF endsWith(word, "ies") THEN DropLast(word, 3) \o "y"
  ELSE IF \/ endsWith(word, "ses") \/ endsWith(word, "shes") \/ endsWith(word, "ches")
          \/ endsWith(word, "xes") \/ endsWith(word, "zes")
    THEN DropLast(word, 2)
  ELSE IF endsWith(word, "s") /\ Len(word) > 1 THEN DropLast(word, 1)
  ELSE word

(***************************************************************************)
(* Field descriptors.  A DirectusField is flattened: schema.* and meta.*   *)
(* are keys of one record, a missing string is Undefined, a missing array  *)
(* is <<>>, a missing boolean is <<>> and a present one <<b>>.             *)
(***************************************************************************)
Undefined == "<undefined>"
Null == "<null>"
Threw == "<TypeError>"

Truthy(v) == v # Undefined /\ v # Null /\ v # ""
OrElse(v, d) == IF Truthy(v) THEN v ELSE d
\* b ?? d on an optional boolean
Coalesce(b, d) == IF b = <<>> THEN d ELSE b[1]

NoOptions ==
  [junction_table |-> Undefined, related_collection |-> Undefined,
   junction_collection |-> Undefined, collection |-> Undefined,
   many_collection |-> Undefined, one_collection |-> Undefined,
   choices |-> <<>>, options |-> <<>>, suggestions |-> <<>>, presets |-> <<>>,
   fields |-> <<>>]

Field(name, type) ==
  [field |-> name, type |-> type, data_type |-> Undefined, is_nullable |-> <<>>,
   foreign_key_table |-> Undefined, collection |-> Undefined, special |-> <<>>,
   interface |-> Undefined, required |-> <<>>, options |-> NoOptions]

\* an element of options.choices / options.options: a plain string or an object
ChoiceString(v) == [isString |-> TRUE, value |-> v, text |-> Undefined]
ChoiceObject(v, t) == [isString |-> FALSE, value |-> v, text |-> t]

(***************************************************************************)
(* Field classifiers.  The UI-only ones are FieldUtils'; the others are    *)
(* the same code in ZodGenerator and TypeGenerator.                        *)
(***************************************************************************)
directusTypeOf(field) == OrElse(field.data_type, field.type)
interfaceOf(field) == OrElse(field.interface, "")

isDividerField(field) ==
  \/ startsWith(field.field, "divider-")
  \/ field.interface = "divider"

isNoticeField(field) ==
  \/ startsWith(field.field, "notice-")
  \/ field.interface = "notice"

isUiOnlyField(field) == isDividerField(field) \/ isNoticeField(field)

isFileField(field) ==
  \/ SeqIncludes(field.special, "file")
  \/ SeqIncludes(field.special, "files")
  \/ interfaceOf(field) = "file"
  \/ interfaceOf(field) = "file-image"
  \/ interfaceOf(field) = "files"

isRadioButtonField(field) == interfaceOf(field) = "select-radio"
isDropdownMultipleField(field) == interfaceOf(field) = "select-multiple-dropdown"
isCheckboxTreeField(field) == interfaceOf(field) = "select-multiple-checkbox-tree"

isDateTimeField(field) ==
  LET Named(fieldName) ==
        \/ includes(fieldName, "date")
        \/ includes(fieldName, "time")
        \/ fieldName = "ts"
  IN  \/ directusTypeOf(field) \in {"timestamp", "datetime", "date", "time"}
      \/ interfaceOf(field) \in {"datetime", "date", "time"}
      \/ Named(toLowerCase(field.field))

isAutocompleteField(field) == interfaceOf(field) = "autocomplete"
isTagField(field) == SeqIncludes(field.special, "cast-json") /\ interfaceOf(field) = "tags"
isRepeaterField(field) ==
  /\ SeqIncludes(field.special, "cast-json")
  /\ interfaceOf(field) = "list"
  /\ Len(field.options.fields) > 0

isManyToManyJunctionField(field) ==
  IF SeqIncludes(field.special, "m2o") THEN FALSE
  ELSE \/ Truthy(field.options.junction_table)
       \/ includes(interfaceOf(field), "m2m")
       \/ includes(interfaceOf(field), "many-to-many")
       \/ SeqIncludes(field.special, "m2m")

isRelationField(field) ==
  \/ SeqIncludes(field.special, "m2o")
  \/ SeqIncludes(field.special, "o2m")
  \/ SeqIncludes(field.special, "m2a")
  \/ SeqIncludes(field.special, "m2m")
  \/ includes(interfaceOf(field), "m2o")
  \/ includes(interfaceOf(field), "o2m")
  \/ includes(interfaceOf(field), "m2a")
  \/ includes(interfaceOf(field), "m2m")
  \/ includes(interfaceOf(field), "many-to-many")
  \/ isManyToManyJunctionField(field)

(***************************************************************************)
(* Relationship records, as returned by DirectusClient.getRelationships.   *)
(* nil marks a JSON null in the fetched list.                              *)
(***************************************************************************)
Rel(c, f, rc) ==
  [nil |-> FALSE, collection |-> c, field |-> f, related_collection |-> rc,
   one_collection |-> Undefined, one_field |-> Undefined,
   many_collection |-> Undefined, many_field |-> Undefined,
   junction_collection |-> Undefined]
NilRel == [Rel(Undefined, Undefined, Undefined) EXCEPT !.nil = TRUE]

\* Array.prototype.find: index of the first record satisfying P, 0 when none,
\* -1 when reading a property of a null record throws before a match
Find(rels, P(_)) ==
  LET hits == {i \in 1..Len(rels) : ~rels[i].nil /\ P(rels[i])}
      nils == {i \in 1..Len(rels) : rels[i].nil}
      first == IF hits = {} THEN Len(rels) + 1 ELSE CHOOSE i \in hits : \A j \in hits : i <= j
  IN  IF \E n \in nils : n < first THEN -1
      ELSE IF hits = {} THEN 0 ELSE first

RECURSIVE SelectSeqIdx(_, _, _)
SelectSeqIdx(seq, P(_), i) ==
  IF i > Len(seq) THEN <<>>
  ELSE (IF P(seq[i]) THEN <<seq[i]>> ELSE <<>>) \o SelectSeqIdx(seq, P, i + 1)
Filter(seq, P(_)) == SelectSeqIdx(seq, P, 1)

\* the options hints of an m2m field, in the order the code tries them
m2mOptionHint(options) ==
  IF Truthy(options.related_collection) THEN options.related_collection
  ELSE IF Truthy(options.junction_collection) THEN options.junction_collection
  ELSE IF Truthy(options.collection) THEN options.collection
  ELSE IF Truthy(options.many_collection) THEN options.many_collection
  ELSE IF Truthy(options.one_collection) THEN options.one_collection
  ELSE Undefined

\* junction fields: user_id -> users; Undefined when the pattern does not apply
junctionFieldNameHint(fieldName) ==
  LET Hint(parts) ==
        IF Len(parts) >= 2 /\ parts[Len(parts)] = "id"
        THEN JoinWith(SubSeq(parts, 1, Len(parts) - 1), "_") \o "s"
        ELSE Undefined
  IN  IF includes(fieldName, "_") THEN Hint(SplitChar(fieldName, "_")) ELSE Undefined

o2mHint(field) ==
  IF ~SeqIncludes(field.special, "o2m") THEN Null
  ELSE IF Truthy(field.options.related_collection) THEN field.options.related_collection
  ELSE IF field.field = "activity_logs" THEN "audit_activity_logs"
  ELSE Null

\* ZodGenerator: the lookup in this.relationships for an m2m field without hints
Zod_relationshipLookup(field, relationships) ==
  LET collectionName == field.collection
      fieldName == field.field
      IsM2m(rel) == /\ rel.collection = collectionName
                    /\ rel.field = fieldName
                    /\ rel.related_collection # collectionName
      IsReverse(rel) == /\ rel.related_collection = collectionName
                        /\ rel.collection # collectionName
      filterThrows == \E i \in 1..Len(relationships) :
                        relationships[i].nil \/ relationships[i].collection \in {Undefined, Null}
      IsJunction(rel) == /\ includes(rel.collection, "_")
                         /\ includes(rel.collection,
                                     IF collectionName = Undefined THEN "undefined"
                                     ELSE collectionName)
                         /\ rel.related_collection = collectionName
      HasEnabler(rel) == includes(toLowerCase(rel.collection), "enabler")
      NoQuestion(rel) == ~includes(toLowerCase(rel.collection), "question")
      Verified(relatedCollection) ==
        IF \E i \in 1..Len(relationships) :
             \/ relationships[i].collection = relatedCollection
             \/ relationships[i].related_collection = relatedCollection
        THEN relatedCollection
        ELSE Null
      FromPart(relatedPart) ==
        IF Truthy(relatedPart) THEN Verified(toLowerCase(relatedPart) \o "s") ELSE Null
      PartHits(parts, lowerName) ==
        {i \in 1..Len(parts) : toLowerCase(parts[i]) # lowerName /\ toLowerCase(parts[i]) # "id"}
      FirstPart(parts, partHits) ==
        IF partHits = {} THEN Undefined
        ELSE parts[CHOOSE i \in partHits : \A j \in partHits : i <= j]
      FromParts(parts) ==
        IF Len(parts) >= 2
        THEN FromPart(FirstPart(parts, PartHits(parts, toLowerCase(OrElse(collectionName, "")))))
        ELSE Null
      FromTarget(junctionRelations, byName) ==
        FromParts(SplitChar(junctionRelations[IF byName > 0 THEN byName ELSE 1].collection, "_"))
      ByName(junctionRelations, enabler) ==
        IF fieldName \in {"enables", "disables"}
        THEN IF enabler > 0 THEN enabler ELSE Find(junctionRelations, NoQuestion)
        ELSE 0
      FromJunctions(junctionRelations) ==
        IF Len(junctionRelations) > 0
        THEN FromTarget(junctionRelations,
                        ByName(junctionRelations, Find(junctionRelations, HasEnabler)))
        ELSE Null
      Search(m2mRelation, reverseM2mRelation) ==
        IF m2mRelation = -1 THEN Threw
        ELSE IF m2mRelation > 0 THEN relationships[m2mRelation].related_collection
        ELSE IF reverseM2mRelation = -1 THEN Threw
        ELSE IF reverseM2mRelation > 0 THEN relationships[reverseM2mRelation].collection
        ELSE IF filterThrows THEN Threw
        ELSE FromJunctions(Filter(relationships, IsJunction))
  IN  IF Len(relationships) = 0 THEN Null
      ELSE Search(Find(relationships, IsM2m), Find(relationships, IsReverse))

\* TypeGenerator: the lookup in this.relationships for an m2m field without hints
Type_relationshipLookup(field, relationships) ==
  LET collectionName == field.collection
      fieldName == field.field
      IsOneSide(rel) == /\ rel.one_collection = collectionName
                        /\ rel.one_field = fieldName
                        /\ rel.many_collection # collectionName
      IsManySide(rel) == /\ rel.many_collection = collectionName
                         /\ rel.many_field = fieldName
                         /\ rel.one_collection # collectionName
      IsJunction(rel) == /\ rel.junction_collection = collectionName
                         /\ (rel.one_collection # collectionName \/ rel.many_collection # collectionName)
      m2mRelation == Find(relationships, IsOneSide)
      reverseM2mRelation == Find(relationships, IsManySide)
      junctionRelation == Find(relationships, IsJunction)
  IN  IF Len(relationships) = 0 THEN Null
      ELSE IF m2mRelation = -1 THEN Threw
      ELSE IF m2mRelation > 0 THEN relationships[m2mRelation].many_collection
      ELSE IF reverseM2mRelation = -1 THEN Threw
      ELSE IF reverseM2mRelation > 0 THEN relationships[reverseM2mRelation].one_collection
      ELSE IF junctionRelation = -1 THEN Threw
      ELSE IF junctionRelation > 0
        THEN IF relationships[junctionRelation].one_collection = collectionName
             THEN relationships[junctionRelation].many_collection
             ELSE relationships[junctionRelation].one_collection
      ELSE Null

\* the part of getRelatedCollectionName both generators share; Lookup is the
\* outcome of the generator's own search of its relationship records
relatedCollectionNameWith(field, Lookup) ==
  LET special == field.special
      options == field.options
      OrLookup(hint) == IF Truthy(hint) THEN hint ELSE Lookup
      OrO2m(hint) == IF Truthy(hint) THEN hint ELSE o2mHint(field)
  IN  IF SeqIncludes(special, "m2o") /\ Truthy(field.foreign_key_table)
        THEN field.foreign_key_table
      ELSE IF SeqIncludes(special, "m2m") \/ isManyToManyJunctionField(field)
        THEN IF Truthy(options.junction_table) THEN options.junction_table
             ELSE IF Truthy(options.related_collection) THEN options.related_collection
             ELSE IF SeqIncludes(special, "m2m") THEN OrLookup(m2mOptionHint(options))
             ELSE OrO2m(junctionFieldNameHint(field.field))
      ELSE o2mHint(field)

Zod_getRelatedCollectionName(field, relationships) ==
  relatedCollectionNameWith(field, Zod_relationshipLookup(field, relationships))

Type_getRelatedCollectionName(field, relationships) ==
  relatedCollectionNameWith(field, Type_relationshipLookup(field, relationships))

(***************************************************************************)
(* RelationshipUtils                                                       *)
(***************************************************************************)
\* a faulty variant: the junction records are tried before the two sides
RelationshipUtils_relationshipLookup_junctionFirst(field, relationships) ==
  LET collectionName == field.collection
      fieldName == field.field
      IsOneSide(rel) == /\ rel.one_collection = collectionName
                        /\ rel.one_field = fieldName
                        /\ rel.many_collection # collectionName
      IsManySide(rel) == /\ rel.many_collection = collectionName
                         /\ rel.many_field = fieldName
                         /\ rel.one_collection # collectionName
      IsJunction(rel) == /\ rel.junction_collection = collectionName
                         /\ (rel.one_collection # collectionName \/ rel.many_collection # collectionName)
      m2mRelation == Find(relationships, IsOneSide)
      reverseM2mRelation == Find(relationships, IsManySide)
      junctionRelation == Find(relationships, IsJunction)
  IN  IF Len(relationships) = 0 THEN Null
      ELSE IF junctionRelation = -1 THEN Threw
      ELSE IF junctionRelation > 0
        THEN IF relationships[junctionRelation].one_collection = collectionName
             THEN relationships[junctionRelation].many_collection
             ELSE relationships[junctionRelation].one_collection
      ELSE IF m2mRelation > 0 THEN relationships[m2mRelation].many_collection
      ELSE IF reverseM2mRelation > 0 THEN relationships[reverseM2mRelation].one_collection
      ELSE Null

\* the lookup in this.relationships for an m2m field without hints
RelationshipUtils_relationshipLookup(field, relationships) ==
  LET collectionName == field.collection
      fieldName == field.field
      IsOneSide(rel) == /\ rel.one_collection = collectionName
                        /\ rel.one_field = fieldName
                        /\ rel.many_collection # collectionName
      IsManySide(rel) == /\ rel.many_collection = collectionName
                         /\ rel.many_field = fieldName
                         /\ rel.one_collection # collectionName
      IsJunction(rel) == /\ rel.junction_collection = collectionName
                         /\ (rel.one_collection # collectionName \/ rel.many_collection # collectionName)
      m2mRelation == Find(relationships, IsOneSide)
      reverseM2mRelation == Find(relationships, IsManySide)
      junctionRelation == Find(relationships, IsJunction)
  IN  IF Len(relationships) = 0 THEN Null
      ELSE IF m2mRelation = -1 THEN Threw
      ELSE IF m2mRelation > 0 THEN relationships[m2mRelation].many_collection
      ELSE IF reverseM2mRelation = -1 THEN Threw
      ELSE IF reverseM2mRelation > 0 THEN relationships[reverseM2mRelation].one_collection
      ELSE IF junctionRelation = -1 THEN Threw
      ELSE IF junctionRelation > 0
        THEN IF relationships[junctionRelation].one_collection = collectionName
             THEN relationships[junctionRelation].many_collection
             ELSE relationships[junctionRelation].one_collection
      ELSE Null

\* a faulty variant: an m2m field takes its records before its option hints
RelationshipUtils_getRelatedCollectionName_recordsFirst(field, relationships) ==
  LET options == field.options
      Hinted(found) ==
        IF Truthy(found) THEN found
        ELSE IF Truthy(options.junction_table) THEN options.junction_table
        ELSE IF Truthy(options.related_collection) THEN options.related_collection
        ELSE IF Truthy(options.junction_collection) THEN options.junction_collection
        ELSE IF Truthy(options.collection) THEN options.collection
        ELSE IF Truthy(options.many_collection) THEN options.many_collection
        ELSE IF Truthy(options.one_collection) THEN options.one_collection
        ELSE Null
  IN  IF SeqIncludes(field.special, "m2o") /\ Truthy(field.foreign_key_table)
        THEN field.foreign_key_table
      ELSE IF SeqIncludes(field.special, "m2m")
        THEN Hinted(RelationshipUtils_relationshipLookup(field, relationships))
      ELSE Null

\* RelationshipUtils.getRelatedCollectionName; Threw when a find callback reads a null record
RelationshipUtils_getRelatedCollectionName(field, relationships) ==
  LET special == field.special
      options == field.options
      fieldName == field.field
      isManyToManyJunction ==
        \/ SeqIncludes(special, "m2m")
        \/ includes(interfaceOf(field), "m2m")
        \/ includes(interfaceOf(field), "many-to-many")
      LastPart(parts) == IF Len(parts) >= 2 THEN <<parts[Len(parts)] \o "s">> ELSE <<>>
      \* the value the m2m block returns, <<>> when it falls through
      FromM2m ==
        IF Truthy(options.junction_table) THEN <<options.junction_table>>
        ELSE IF Truthy(options.related_collection) THEN <<options.related_collection>>
        ELSE IF SeqIncludes(special, "m2m")
          THEN IF Truthy(options.junction_collection) THEN <<options.junction_collection>>
               ELSE IF Truthy(options.collection) THEN <<options.collection>>
               ELSE IF Truthy(options.many_collection) THEN <<options.many_collection>>
               ELSE IF Truthy(options.one_collection) THEN <<options.one_collection>>
               ELSE <<RelationshipUtils_relationshipLookup(field, relationships)>>
        ELSE IF includes(fieldName, "_") THEN LastPart(SplitChar(fieldName, "_"))
        ELSE <<>>
      FromO2m ==
        IF ~SeqIncludes(special, "o2m") THEN Null
        ELSE IF Truthy(options.related_collection) THEN options.related_collection
        ELSE IF fieldName = "activity_logs" THEN "audit_activity_logs"
        ELSE Null
      Returned(fromM2m) == IF fromM2m # <<>> THEN fromM2m[1] ELSE FromO2m
  IN  IF SeqIncludes(special, "m2o") /\ Truthy(field.foreign_key_table)
        THEN field.foreign_key_table
      ELSE Returned(IF SeqIncludes(special, "m2m") \/ isManyToManyJunction THEN FromM2m ELSE <<>>)

(***************************************************************************)
(* Enumerated values.  Choice values are drawn from texts without sign,    *)
(* blank, '.' or exponent, on which parseFloat agrees with parseInt.       *)
(***************************************************************************)
NaN == "NaN"

RECURSIVE LeadingDigits(_)
LeadingDigits(v) ==
  IF v = "" \/ CharAt(v, 1) \notin {"0", "1", "2", "3", "4", "5", "6", "7", "8", "9"} THEN "" ELSE CharAt(v, 1) \o LeadingDigits(Tail(v))

RECURSIVE StripZeros(_)
StripZeros(d) == IF Len(d) > 1 /\ CharAt(d, 1) = "0" THEN StripZeros(Tail(d)) ELSE d

\* the text of parseInt(v, 10), NaN when v has no leading digit
parseInt(v) ==
  LET Parsed(digits) == IF digits = "" THEN NaN ELSE StripZeros(digits)
  IN  Parsed(LeadingDigits(v))

\* the value the choices/options branches take out of one element
choiceValue(c, useText) ==
  IF c.isString THEN c.value
  ELSE IF Truthy(c.value) THEN c.value
  ELSE IF useText /\ Truthy(c.text) THEN c.text
  ELSE "[object Object]"

\* one element of the enum, converted by the field's data type
convertChoice(value, directusType, quoteNaN) ==
  LET Number(parsed) ==
        IF parsed = NaN THEN (IF quoteNaN THEN "\"" \o value \o "\"" ELSE value) ELSE parsed
  IN  IF directusType \in {"integer", "bigint", "decimal", "float", "real"}
        THEN Number(parseInt(value))
      ELSE IF directusType = "boolean"
        THEN (IF value = "true" THEN "true" ELSE "false")
      ELSE "\"" \o value \o "\""

RECURSIVE MapChoices(_, _, _, _)
MapChoices(list, directusType, useText, quoteNaN) ==
  IF list = <<>> THEN <<>>
  ELSE <<convertChoice(choiceValue(Head(list), useText), directusType, quoteNaN)>>
       \o MapChoices(Tail(list), directusType, useText, quoteNaN)

\* choices.map(choice => choice.value), then [...new Set(values)]
RECURSIVE UniqueValues(_, _)
UniqueValues(list, seen) ==
  IF list = <<>> THEN <<>>
  ELSE LET v == IF Head(list).isString THEN Undefined ELSE Head(list).value
       IN  IF v \in seen THEN UniqueValues(Tail(list), seen)
           ELSE <<v>> \o UniqueValues(Tail(list), seen \cup {v})

\* extractValues of the checkbox tree, on choices without children
RECURSIVE TreeValues(_, _)
TreeValues(list, seen) ==
  IF list = <<>> THEN <<>>
  ELSE LET v == IF Head(list).isString THEN Undefined ELSE Head(list).value
       IN  IF ~Truthy(v) \/ v \in seen THEN TreeValues(Tail(list), seen)
           ELSE <<v>> \o TreeValues(Tail(list), seen \cup {v})

RECURSIVE Quoted(_)
Quoted(values) ==
  IF values = <<>> THEN <<>>
  ELSE <<"\"" \o (IF Head(values) = Undefined THEN "undefined" ELSE Head(values)) \o "\"">>
       \o Quoted(Tail(values))

(***************************************************************************)
(* ZodGenerator: field emission                                            *)
(***************************************************************************)
generateFileSchema(field) ==
  IF interfaceOf(field) = "files" \/ SeqIncludes(field.special, "files") THEN "z.array(DrxFileSchema)"
  ELSE IF interfaceOf(field) = "file-image" THEN "DrxImageFileSchema"
  ELSE "DrxFileSchema"

generateRadioButtonSchema(field) ==
  IF Len(field.options.choices) > 0
  THEN "z.enum([" \o JoinWith(Quoted(UniqueValues(field.options.choices, {})), ", ") \o "])"
  ELSE "z.string()"

generateDropdownMultipleSchema(field) ==
  IF Len(field.options.choices) > 0
  THEN "z.array(z.enum([" \o JoinWith(Quoted(UniqueValues(field.options.choices, {})), ", ") \o "]))"
  ELSE "z.array(z.string())"

generateCheckboxTreeSchema(field) ==
  IF Len(field.options.choices) > 0
  THEN "z.array(z.enum([" \o JoinWith(Quoted(TreeValues(field.options.choices, {})), ", ") \o "]))"
  ELSE "z.array(z.string())"

generateDateTimeSchema(field) ==
  LET Schema(directusType, fieldName) ==
        IF directusType = "date" \/ interfaceOf(field) = "date" \/ fieldName = "date"
          THEN "z.string().date()"
        ELSE IF directusType = "time" \/ interfaceOf(field) = "time" \/ fieldName = "time"
          THEN "z.string().time()"
        ELSE "z.string().datetime()"
  IN  Schema(directusTypeOf(field), toLowerCase(field.field))

generateAutocompleteSchema(field) ==
  IF Len(field.options.suggestions) > 0
  THEN "z.enum([" \o JoinWith(Quoted(field.options.suggestions), ", ") \o "])"
  ELSE "z.string()"

generateTagSchema(field) ==
  IF Len(field.options.presets) > 0
  THEN "z.array(z.enum([" \o JoinWith(Quoted(field.options.presets), ", ") \o "]))"
  ELSE "z.array(z.string())"

getZodTypeForSubField(fieldType) ==
  CASE fieldType \in {"integer", "bigint", "smallint", "tinyint"} -> "z.number().int()"
    [] fieldType \in {"decimal", "float", "double"} -> "z.number()"
    [] fieldType = "boolean" -> "z.boolean()"
    [] fieldType \in {"varchar", "char", "text", "longtext", "character varying"} -> "z.string()"
    [] fieldType = "date" -> "z.string().date()"
    [] fieldType \in {"datetime", "timestamp"} -> "z.string().datetime()"
    [] fieldType = "time" -> "z.string().time()"
    [] fieldType = "uuid" -> "z.string().uuid()"
    [] fieldType = "json" -> "z.any()"
    [] OTHER -> "z.string()"

generateRepeaterSchema(field) ==
  IF Len(field.options.fields) = 0 THEN "z.array(z.any())"
  ELSE "z.array(z.object({\n    "
       \o JoinWith([k \in 1..Len(field.options.fields) |->
                      field.options.fields[k].field \o ": "
                      \o getZodTypeForSubField(field.options.fields[k].type)], ",\n    ") \o "\n}))"

\* the scalar tail of getZodType: special tags, then the raw type
zodScalarType(field, directusType) ==
  LET special == field.special
  IN  IF SeqIncludes(special, "uuid") THEN "z.string().uuid()"
      ELSE IF SeqIncludes(special, "date-created") \/ SeqIncludes(special, "date-updated")
        THEN "z.string().datetime()"
      ELSE IF SeqIncludes(special, "user-created") \/ SeqIncludes(special, "user-updated")
        THEN "z.string()"
      ELSE IF SeqIncludes(special, "sort") THEN "z.number().int()"
      ELSE CASE directusType = "uuid" -> "z.string().uuid()"
             [] directusType \in {"varchar", "char", "text", "longtext", "character varying"} -> "z.string()"
             [] directusType \in {"integer", "bigint", "smallint", "tinyint"} -> "z.number().int()"
             [] directusType \in {"decimal", "float", "double"} -> "z.number()"
             [] directusType = "boolean" -> "z.boolean()"
             [] directusType = "date" -> "z.string().date()"
             [] directusType \in {"datetime", "timestamp"} -> "z.string().datetime()"
             [] directusType = "time" -> "z.string().time()"
             [] directusType \in {"json", "geometry"} -> "z.any()"
             [] directusType = "binary" -> "z.string()"
             [] OTHER -> "z.string()"

\* the choices / options branches and everything after them
zodChoiceOrScalar(field, directusType) ==
  IF Len(field.options.choices) > 0
    THEN "z.enum([" \o JoinWith(MapChoices(field.options.choices, directusType, FALSE, FALSE), ", ") \o "])"
  ELSE IF Len(field.options.options) > 0
    THEN "z.enum([" \o JoinWith(MapChoices(field.options.options, directusType, TRUE, FALSE), ", ") \o "])"
  ELSE zodScalarType(field, directusType)

\* the schema name a relation to relatedCollection is emitted under
relatedSchemaNameOf(relatedCollection) ==
  LET isSystemCollection == startsWith(relatedCollection, "directus_")
      baseCollectionName == IF isSystemCollection
                            THEN replaceFirst(relatedCollection, "directus_", "")
                            ELSE relatedCollection
      Named(collectionName) ==
        IF isSystemCollection THEN "DrxDirectus" \o collectionName \o "Schema"
        ELSE "Drx" \o collectionName \o "Schema"
  IN  Named(StringUtils_toSingular(toPascalCase(baseCollectionName)))

\* the relation branch of getZodType for a resolved relatedCollection;
\* Undefined when it falls through
zodRelationType(field, relatedCollection) ==
  LET special == field.special
      currentCollectionName == OrElse(field.collection, "")
      isSelfReference == currentCollectionName = relatedCollection
      Typed(relatedSchemaName) ==
        IF SeqIncludes(special, "m2o")
          THEN IF isSelfReference
               THEN "z.lazy(() => " \o relatedSchemaName \o ")"
               ELSE relatedSchemaName
        ELSE IF SeqIncludes(special, "o2m") THEN "z.array(" \o relatedSchemaName \o ")"
        ELSE IF SeqIncludes(special, "m2a") THEN "z.array(" \o relatedSchemaName \o ")"
        ELSE IF SeqIncludes(special, "m2m") \/ isManyToManyJunctionField(field)
          THEN "z.array(" \o relatedSchemaName \o ")"
        ELSE Undefined
  IN  Typed(relatedSchemaNameOf(relatedCollection))

getZodType(field, relationships) ==
  LET Relation(relatedCollection) ==
        IF relatedCollection = Threw THEN Threw
        ELSE IF Truthy(relatedCollection) THEN zodRelationType(field, relatedCollection)
        ELSE Undefined
      OrScalar(relationType) ==
        IF relationType # Undefined THEN relationType
        ELSE zodChoiceOrScalar(field, directusTypeOf(field))
  IN  IF isFileField(field) THEN generateFileSchema(field)
      ELSE IF isRadioButtonField(field) THEN generateRadioButtonSchema(field)
      ELSE IF isDropdownMultipleField(field) THEN generateDropdownMultipleSchema(field)
      ELSE IF isCheckboxTreeField(field) THEN generateCheckboxTreeSchema(field)
      ELSE IF isDateTimeField(field) THEN generateDateTimeSchema(field)
      ELSE IF isAutocompleteField(field) THEN generateAutocompleteSchema(field)
      ELSE IF isTagField(field) THEN generateTagSchema(field)
      ELSE IF isRepeaterField(field) THEN generateRepeaterSchema(field)
      ELSE OrScalar(IF isRelationField(field)
                    THEN Relation(Zod_getRelatedCollectionName(field, relationships))
                    ELSE Undefined)

generateFieldSchema(field, relationships) ==
  LET isRequired == Coalesce(field.required, FALSE)
      isNullable == Coalesce(field.is_nullable, TRUE)
      Schema(zodType) ==
        IF zodType = Threw THEN Threw
        ELSE field.field \o ": " \o zodType
             \o (IF isNullable /\ ~isRequired THEN ".nullable()" ELSE "")
             \o (IF ~isRequired THEN ".optional()" ELSE "")
  IN  Schema(getZodType(field, relationships))

(***************************************************************************)
(* ZodGenerator: collection emission.  A collection is a record            *)
(* [collection |-> name, fields |-> <<field, ...>>].                       *)
(***************************************************************************)
NotUiOnly(field) == ~isUiOnlyField(field)

isJunctionTable(collection) ==
  LET collectionName == collection.collection
      IsForeignKey(field) == Truthy(field.foreign_key_table) \/ SeqIncludes(field.special, "m2o")
      IsOther(field) == /\ ~IsForeignKey(field)
                        /\ field.field # "id"
                        /\ ~startsWith(field.field, "date_")
                        /\ ~startsWith(field.field, "user_")
  IN  IF /\ includes(collectionName, "_")
         /\ \/ includes(collectionName, "_junction")
            \/ includes(collectionName, "_link")
            \/ includes(collectionName, "_relation")
      THEN TRUE
      ELSE IF Len(Filter(collection.fields, IsForeignKey)) >= 2
      THEN Len(Filter(collection.fields, IsOther)) <= 2
      ELSE FALSE

\* the comment lines generateRelationshipDebugInfo writes for one field
debugInfoOfField(field, relatedCollection) ==
  "// Field: " \o field.field \o "\n"
  \o "//   Special: [" \o JoinWith(field.special, ", ") \o "]\n"
  \o "//   Interface: " \o interfaceOf(field) \o "\n"
  \o "//   Related Collection: " \o OrElse(relatedCollection, "Unknown") \o "\n"
  \o "//   Junction Table: " \o OrElse(field.options.junction_table, "None") \o "\n"
  \o "//   Is M2M Junction: " \o (IF isManyToManyJunctionField(field) THEN "true" ELSE "false") \o "\n"

RECURSIVE debugInfoOfFields(_, _)
debugInfoOfFields(relationFields, relationships) ==
  LET Lines(relatedCollection, rest) ==
        IF relatedCollection = Threw \/ rest = Threw THEN Threw
        ELSE debugInfoOfField(Head(relationFields), relatedCollection) \o rest
  IN  IF relationFields = <<>> THEN ""
      ELSE Lines(Zod_getRelatedCollectionName(Head(relationFields), relationships),
                 debugInfoOfFields(Tail(relationFields), relationships))

generateRelationshipDebugInfo(collection, relationships) ==
  LET Info(junctionTables, body) ==
        IF body = Threw THEN Threw
        ELSE "\n// DEBUG: Relationship information for " \o collection.collection \o "\n"
             \o (IF junctionTables THEN "// This appears to be a junction table\n" ELSE "")
             \o body
             \o "// END DEBUG\n\n"
      Debug(relationFields, junctionTables) ==
        IF Len(relationFields) = 0 /\ ~junctionTables THEN ""
        ELSE Info(junctionTables, debugInfoOfFields(relationFields, relationships))
  IN  Debug(Filter(collection.fields, isRelationField), isJunctionTable(collection))

HasFieldNamed(fields, name) == \E i \in 1..Len(fields) : fields[i].field = name

systemFields == <<"user_created", "date_created", "user_updated", "date_updated">>

\* a faulty variant: every audit field is omitted, present or not
getFieldsToOmitForCreate_everyAuditField(fields, hasIdField) == <<"id">> \o systemFields

getFieldsToOmitForCreate(fields, hasIdField) ==
  LET Present(systemField) == HasFieldNamed(fields, systemField)
  IN  <<"id">> \o Filter(systemFields, Present)

RECURSIVE MapOmitLines(_)
MapOmitLines(names) ==
  IF names = <<>> THEN <<>>
  ELSE <<"    " \o Head(names) \o ": true">> \o MapOmitLines(Tail(names))

schemaNameOf(collection) ==
  "Drx" \o StringUtils_toSingular(toPascalCase(collection.collection)) \o "Schema"

\* a faulty variant: the synthetic id is pushed after the fields
schemaFieldList_idLast(filteredFields, relationships) ==
  LET WithId(fields) ==
        IF HasFieldNamed(filteredFields, "id") THEN fields
        ELSE fields \o <<"id: z.string().uuid().optional()">>
  IN  WithId([k \in 1..Len(filteredFields) |->
                generateFieldSchema(filteredFields[k], relationships)])

\* the validator field list of generateSchema over the fields left after the
\* UI-only ones are dropped, synthetic id included
schemaFieldList(filteredFields, relationships) ==
  LET WithId(fields) ==
        IF HasFieldNamed(filteredFields, "id") THEN fields
        ELSE <<"id: z.string().uuid().optional()">> \o fields
  IN  WithId([k \in 1..Len(filteredFields) |->
                generateFieldSchema(filteredFields[k], relationships)])

generateSchema(collection, relationships, isCircularDependency) ==
  LET Text(schemaName, createSchemaName, updateSchemaName, getSchemaName,
           debugInfo, fieldsString, omitFieldsString) ==
        IF isCircularDependency
        THEN debugInfo
             \o "export const " \o schemaName \o ": z.ZodType<any> = z.lazy(() => z.object({\n    "
             \o fieldsString \o "\n}));"
             \o "\n\n"
             \o "export const " \o createSchemaName \o ": z.ZodType<any> = z.lazy(() => ("
             \o schemaName \o " as z.ZodObject<any>).omit({\n" \o omitFieldsString \o "\n}));"
             \o "\n\n"
             \o "export const " \o updateSchemaName \o ": z.ZodType<any> = z.lazy(() => ("
             \o schemaName \o " as z.ZodObject<any>).partial().required({\n    id: true\n}));"
             \o "\n\n"
             \o "export const " \o getSchemaName \o ": z.ZodType<any> = z.lazy(() => "
             \o schemaName \o ");"
        ELSE debugInfo
             \o "export const " \o schemaName \o " = z.object({\n    " \o fieldsString \o "\n});"
             \o "\n\n"
             \o "export const " \o createSchemaName \o " = " \o schemaName
             \o ".omit({\n" \o omitFieldsString \o "\n});"
             \o "\n\n"
             \o "export const " \o updateSchemaName \o " = " \o schemaName
             \o ".partial().required({\n    id: true\n});"
             \o "\n\n"
             \o "export const " \o getSchemaName \o " = " \o schemaName \o ";"
      Emit(schemaName, fields, debugInfo, fieldsToOmit) ==
        IF SeqIncludes(fields, Threw) \/ debugInfo = Threw THEN Threw
        ELSE Text(schemaName,
                  replaceFirst(schemaName, "Schema", "CreateSchema"),
                  replaceFirst(schemaName, "Schema", "UpdateSchema"),
                  replaceFirst(schemaName, "Schema", "GetSchema"),
                  debugInfo,
                  JoinWith(fields, ",\n    "),
                  JoinWith(MapOmitLines(fieldsToOmit), ",\n"))
      Fields(filteredFields) ==
        Emit(schemaNameOf(collection),
             schemaFieldList(filteredFields, relationships),
             generateRelationshipDebugInfo(collection, relationships),
             getFieldsToOmitForCreate(filteredFields, HasFieldNamed(filteredFields, "id")))
  IN  Fields(Filter(collection.fields, NotUiOnly))

(***************************************************************************)
(* TypeGenerator                                                           *)
(***************************************************************************)
generateFileType(field) ==
  IF interfaceOf(field) = "files" \/ SeqIncludes(field.special, "files") THEN "DrsFile[]"
  ELSE IF interfaceOf(field) = "file-image" THEN "DrsImageFile"
  ELSE "DrsFile"

generateRadioButtonType(field) ==
  IF Len(field.options.choices) > 0
  THEN JoinWith(Quoted(UniqueValues(field.options.choices, {})), " | ")
  ELSE "string"

generateDropdownMultipleType(field) ==
  IF Len(field.options.choices) > 0
  THEN "(" \o JoinWith(Quoted(UniqueValues(field.options.choices, {})), " | ") \o ")[]"
  ELSE "string[]"

generateCheckboxTreeType(field) ==
  IF Len(field.options.choices) > 0
  THEN "(" \o JoinWith(Quoted(TreeValues(field.options.choices, {})), " | ") \o ")[]"
  ELSE "string[]"

generateDateTimeType(field) == "string"

generateAutocompleteType(field) ==
  IF Len(field.options.suggestions) > 0
  THEN JoinWith(Quoted(field.options.suggestions), " | ")
  ELSE "string"

generateTagType(field) ==
  IF Len(field.options.presets) > 0
  THEN "(" \o JoinWith(Quoted(field.options.presets), " | ") \o ")[]"
  ELSE "string[]"

getTypeScriptTypeForSubField(fieldType) ==
  CASE fieldType \in {"integer", "bigint", "smallint", "tinyint", "decimal", "float", "double"} -> "number"
    [] fieldType = "boolean" -> "boolean"
    [] fieldType = "json" -> "any"
    [] OTHER -> "string"

generateRepeaterType(field) ==
  IF Len(field.options.fields) = 0 THEN "any[]"
  ELSE "{\n    " \o JoinWith([k \in 1..Len(field.options.fields) |->
                               field.options.fields[k].field \o ": "
                               \o getTypeScriptTypeForSubField(field.options.fields[k].type)],
                            "; ") \o ";\n}[]"

typeScalarType(field, directusType) ==
  LET special == field.special
  IN  IF SeqIncludes(special, "uuid") THEN "string"
      ELSE IF SeqIncludes(special, "date-created") \/ SeqIncludes(special, "date-updated")
        THEN "string"
      ELSE IF SeqIncludes(special, "user-created") \/ SeqIncludes(special, "user-updated")
        THEN "string"
      ELSE IF SeqIncludes(special, "sort") THEN "number"
      ELSE CASE directusType \in {"uuid", "varchar", "char", "text", "longtext",
                                  "character varying", "date", "datetime", "timestamp",
                                  "time", "binary"} -> "string"
             [] directusType \in {"integer", "bigint", "smallint", "tinyint",
                                  "decimal", "float", "double"} -> "number"
             [] directusType = "boolean" -> "boolean"
             [] directusType \in {"json", "geometry"} -> "any"
             [] OTHER -> "any"

typeChoiceOrScalar(field, directusType) ==
  IF Len(field.options.choices) > 0
    THEN JoinWith(MapChoices(field.options.choices, directusType, FALSE, TRUE), " | ")
  ELSE IF Len(field.options.options) > 0
    THEN JoinWith(MapChoices(field.options.options, directusType, TRUE, TRUE), " | ")
  ELSE typeScalarType(field, directusType)

relatedTypeNameOf(relatedCollection) ==
  LET isSystemCollection == startsWith(relatedCollection, "directus_")
      baseCollectionName == IF isSystemCollection
                            THEN replaceFirst(relatedCollection, "directus_", "")
                            ELSE relatedCollection
      Named(collectionName) ==
        IF isSystemCollection THEN "DrsDirectus" \o collectionName
        ELSE "Drs" \o collectionName
  IN  Named(TypeGenerator_toSingular(toPascalCase(baseCollectionName)))

typeRelationType(field, relatedCollection) ==
  LET special == field.special
      Typed(relatedTypeName) ==
        IF SeqIncludes(special, "m2o") THEN relatedTypeName
        ELSE IF SeqIncludes(special, "o2m") THEN relatedTypeName \o "[]"
        ELSE IF SeqIncludes(special, "m2a") THEN relatedTypeName \o "[]"
        ELSE IF SeqIncludes(special, "m2m") \/ isManyToManyJunctionField(field)
          THEN relatedTypeName \o "[]"
        ELSE Undefined
  IN  Typed(relatedTypeNameOf(relatedCollection))

getTypeScriptType(field, relationships) ==
  LET Relation(relatedCollection) ==
        IF relatedCollection = Threw THEN Threw
        ELSE IF Truthy(relatedCollection) THEN typeRelationType(field, relatedCollection)
        ELSE Undefined
      OrScalar(relationType) ==
        IF relationType # Undefined THEN relationType
        ELSE typeChoiceOrScalar(field, directusTypeOf(field))
  IN  IF isFileField(field) THEN generateFileType(field)
      ELSE IF isRadioButtonField(field) THEN generateRadioButtonType(field)
      ELSE IF isDropdownMultipleField(field) THEN generateDropdownMultipleType(field)
      ELSE IF isCheckboxTreeField(field) THEN generateCheckboxTreeType(field)
      ELSE IF isDateTimeField(field) THEN generateDateTimeType(field)
      ELSE IF isAutocompleteField(field) THEN generateAutocompleteType(field)
      ELSE IF isTagField(field) THEN generateTagType(field)
      ELSE IF isRepeaterField(field) THEN generateRepeaterType(field)
      ELSE OrScalar(IF isRelationField(field)
                    THEN Relation(Type_getRelatedCollectionName(field, relationships))
                    ELSE Undefined)

generateFieldType(field, relationships) ==
  LET isRequired == Coalesce(field.required, FALSE)
      Typed(tsType) ==
        IF tsType = Threw THEN Threw
        ELSE field.field \o (IF ~isRequired THEN "?" ELSE "") \o ": " \o tsType
  IN  Typed(getTypeScriptType(field, relationships))

typeNameOf(collection) ==
  "Drs" \o TypeGenerator_toSingular(toPascalCase(collection.collection))

\* the field list of generateType over the fields left after the UI-only
\* ones are dropped, synthetic id included
typeFieldList(filteredFields, relationships) ==
  LET WithId(fields) ==
        IF HasFieldNamed(filteredFields, "id") THEN fields
        ELSE <<"id?: string">> \o fields
  IN  WithId([k \in 1..Len(filteredFields) |->
                generateFieldType(filteredFields[k], relationships)])

generateType(collection, relationships) ==
  LET Text(typeName, fieldsString, omitFieldsString) ==
        "export interface " \o typeName \o " {\n  " \o fieldsString \o ";\n}"
        \o "\n\n"
        \o "export type " \o typeName \o "Create = Omit<" \o typeName \o ", "
        \o omitFieldsString \o ">;"
        \o "\n\n"
        \o "export type " \o typeName \o "Update = Partial<" \o typeName
        \o "> & Required<Pick<" \o typeName \o ", \"id\">>;"
        \o "\n\n"
        \o "export type " \o typeName \o "Get = " \o typeName \o ";"
      Emit(fields, fieldsToOmit) ==
        IF SeqIncludes(fields, Threw) THEN Threw
        ELSE Text(typeNameOf(collection), JoinWith(fields, ";\n  "),
                  JoinWith(Quoted(fieldsToOmit), " | "))
      Fields(filteredFields) ==
        Emit(typeFieldList(filteredFields, relationships),
             getFieldsToOmitForCreate(filteredFields, HasFieldNamed(filteredFields, "id")))
  IN  Fields(Filter(collection.fields, NotUiOnly))

(***************************************************************************)
(* Token scans.  A GeneratedSchema is a record                             *)
(* [collectionName |-> name, schema |-> text, type |-> text], an absent    *)
(* text being Undefined.                                                   *)
(***************************************************************************)
\* the length of the run of letters of s that starts at position i
RECURSIVE LetterRun(_, _)
LetterRun(s, i) ==
  IF i > Len(s) \/ ~(IsLower(CharAt(s, i)) \/ IsUpper(CharAt(s, i))) THEN 0 ELSE 1 + LetterRun(s, i + 1)

\* /Drx[A-Z][a-zA-Z]*Schema/ anchored at i: the last position of the match, 0 when none
SchemaMatchEnd(s, i) ==
  LET ends == {e \in (i + 9)..(i + 3 + LetterRun(s, i + 4)) : SubSeq(s, e - 5, e) = "Schema"}
  IN  IF i + 3 > Len(s) \/ SubSeq(s, i, i + 2) # "Drx" \/ ~IsUpper(CharAt(s, i + 3)) \/ ends = {}
      THEN 0
      ELSE CHOOSE e \in ends : \A d \in ends : d <= e

\* /Drs[A-Z][a-zA-Z]*/ anchored at i
TypeMatchEnd(s, i) ==
  IF i + 3 > Len(s) \/ SubSeq(s, i, i + 2) # "Drs" \/ ~IsUpper(CharAt(s, i + 3))
  THEN 0
  ELSE i + 3 + LetterRun(s, i + 4)

\* String.prototype.match with a global pattern: the matches left to right,
\* none overlapping another
RECURSIVE MatchesFrom(_, _, _, _)
MatchesFrom(s, starts, MatchEnd(_, _), pos) ==
  LET ahead == {i \in starts : i >= pos}
      first == CHOOSE i \in ahead : \A j \in ahead : i <= j
  IN  IF ahead = {} THEN <<>>
      ELSE <<SubSeq(s, first, MatchEnd(s, first))>>
           \o MatchesFrom(s, starts, MatchEnd, MatchEnd(s, first) + 1)

matchSchemaTokens(s) ==
  MatchesFrom(s, {i \in 1..Len(s) : SchemaMatchEnd(s, i) > 0}, SchemaMatchEnd, 1)

matchTypeTokens(s) ==
  MatchesFrom(s, {i \in 1..Len(s) : TypeMatchEnd(s, i) > 0}, TypeMatchEnd, 1)

schemaTokenName(match) == replaceFirst(replaceFirst(match, "Drx", ""), "Schema", "")
typeTokenName(match) == replaceFirst(match, "Drs", "")

isVariantName(singularName) ==
  \/ endsWith(singularName, "Create")
  \/ endsWith(singularName, "Update")
  \/ endsWith(singularName, "Get")

\* Set.prototype.add over a list of names, insertion order kept
RECURSIVE AddAll(_, _)
AddAll(set, names) ==
  IF names = <<>> THEN set
  ELSE AddAll(IF SeqIncludes(set, Head(names)) THEN set ELSE Append(set, Head(names)),
              Tail(names))

MapNames(matches, Name(_)) == [i \in 1..Len(matches) |-> Name(matches[i])]

singularOf(collectionName) == StringUtils_toSingular(toPascalCase(collectionName))

(***************************************************************************)
(* DependencyUtils.  The graph is a Map in insertion order: a sequence of  *)
(* [key |-> name, deps |-> <<name, ...>>].                                 *)
(***************************************************************************)
graphGet(graph, node) ==
  IF \E i \in 1..Len(graph) : graph[i].key = node
  THEN graph[CHOOSE i \in 1..Len(graph) : graph[i].key = node].deps
  ELSE <<>>

graphSet(graph, node, deps) ==
  IF \E i \in 1..Len(graph) : graph[i].key = node
  THEN [i \in 1..Len(graph) |->
          IF graph[i].key = node THEN [key |-> node, deps |-> deps] ELSE graph[i]]
  ELSE Append(graph, [key |-> node, deps |-> deps])

\* the dependencies buildDependencyGraph collects for one result
dependenciesOf(result) ==
  LET Collect(currentCollectionName) ==
        LET Keep(singularName) ==
              ~isVariantName(singularName) /\ singularName # currentCollectionName
        IN  AddAll(AddAll(<<>>,
                          IF Truthy(result.schema)
                          THEN Filter(MapNames(matchSchemaTokens(result.schema), schemaTokenName), Keep)
                          ELSE <<>>),
                   IF Truthy(result.type)
                   THEN Filter(MapNames(matchTypeTokens(result.type), typeTokenName), Keep)
                   ELSE <<>>)
  IN  Collect(singularOf(result.collectionName))

RECURSIVE buildGraphFrom(_, _)
buildGraphFrom(results, graph) ==
  LET Add(dependencies) ==
        IF Len(dependencies) > 0
        THEN graphSet(graph, singularOf(Head(results).collectionName), dependencies)
        ELSE graph
  IN  IF results = <<>> THEN graph
      ELSE buildGraphFrom(Tail(results), Add(dependenciesOf(Head(results))))

\* a faulty variant: every result gets a key, with or without dependencies
buildDependencyGraph_everyKey(results) ==
  [k \in 1..Len(results) |->
     [key |-> singularOf(results[k].collectionName), deps |-> dependenciesOf(results[k])]]

buildDependencyGraph(results) == buildGraphFrom(results, <<>>)

\* dfs and its loop over the neighbours; st = [visited |-> set, cycles |-> seq,
\* entered |-> the nodes dfs was called on, in call order];
\* path ends with node, and the recursion stack is the set of names on path
RECURSIVE dfs(_, _, _, _)
RECURSIVE dfsNeighbors(_, _, _, _)
dfs(graph, node, path, st) ==
  dfsNeighbors(graph, Append(path, node), graphGet(graph, node),
               [st EXCEPT !.visited = @ \cup {node}, !.entered = Append(@, node)])

\* a faulty variant: a visited neighbour closes a cycle whether or not it is
\* on the recursion stack (path.indexOf gives -1 and slice(-1) the last name)
dfsNeighbors_anyVisited(graph, path, neighbors, st) ==
  LET Visit(neighbor) ==
        IF neighbor \notin st.visited THEN dfs(graph, neighbor, path, st)
        ELSE [st EXCEPT !.cycles =
                Append(@, Append(IF SeqIncludes(path, neighbor)
                                 THEN SubSeq(path, CHOOSE k \in 1..Len(path) : path[k] = neighbor,
                                             Len(path))
                                 ELSE SubSeq(path, Len(path), Len(path)),
                                 neighbor))]
  IN  IF neighbors = <<>> THEN st
      ELSE dfsNeighbors(graph, path, Tail(neighbors), Visit(Head(neighbors)))

dfsNeighbors(graph, path, neighbors, st) ==
  LET Visit(neighbor) ==
        IF neighbor \notin st.visited THEN dfs(graph, neighbor, path, st)
        ELSE IF SeqIncludes(path, neighbor)
          THEN [st EXCEPT !.cycles =
                  Append(@, Append(SubSeq(path, CHOOSE k \in 1..Len(path) : path[k] = neighbor,
                                          Len(path)),
                                   neighbor))]
        ELSE st
  IN  IF neighbors = <<>> THEN st
      ELSE dfsNeighbors(graph, path, Tail(neighbors), Visit(Head(neighbors)))

RECURSIVE dfsRoots(_, _, _)
dfsRoots(graph, nodes, st) ==
  IF nodes = <<>> THEN st
  ELSE dfsRoots(graph, Tail(nodes),
                IF Head(nodes) \notin st.visited THEN dfs(graph, Head(nodes), <<>>, st) ELSE st)

\* the traversal of detectCircularDependencies: its final visited set, cycles
\* and log of entered nodes
traversalOf(graph) ==
  dfsRoots(graph, [k \in 1..Len(graph) |-> graph[k].key],
           [visited |-> {}, cycles |-> <<>>, entered |-> <<>>])

detectCircularDependencies(graph) == traversalOf(graph).cycles

isCircularDependency(collectionA, collectionB, circularDeps) ==
  \E i \in 1..Len(circularDeps) :
    SeqIncludes(circularDeps[i], collectionA) /\ SeqIncludes(circularDeps[i], collectionB)

(***************************************************************************)
(* ImportUtils                                                             *)
(***************************************************************************)
isSystemName(collectionName) == startsWith(collectionName, "directus_")

\* the first match of /z\.object\(\{[\s\S]*?\}\)/ in the schema text, "" when none
objectMatch(schema) ==
  LET Closed(start, close) ==
        IF close = 0 THEN "" ELSE SubSeq(schema, start, start + 9 + close + 1)
      Opened(start) ==
        IF start = 0 THEN "" ELSE Closed(start, indexOf(DropFirst(schema, start + 9), "})"))
  IN  Opened(indexOf(schema, "z.object({"))

extractRelatedCollections(result) ==
  LET Collect(self) ==
        LET KeepSchema(singularName) ==
              singularName # self /\ singularName \notin {"File", "ImageFile"}
            KeepType(singularName) ==
              /\ ~isVariantName(singularName)
              /\ singularName # self
              /\ singularName \notin {"File", "ImageFile"}
        IN  AddAll(AddAll(<<>>,
                          IF Truthy(result.schema)
                          THEN Filter(MapNames(matchSchemaTokens(objectMatch(result.schema)),
                                               schemaTokenName), KeepSchema)
                          ELSE <<>>),
                   IF Truthy(result.type)
                   THEN Filter(MapNames(matchTypeTokens(result.type), typeTokenName), KeepType)
                   ELSE <<>>)
  IN  Collect(singularOf(result.collectionName))

\* results.find of generateImportStatements: the index of the result an
\* imported name resolves to, 0 when none
findRelatedCollection(results, singularName) ==
  LET hits == {i \in 1..Len(results) :
                 \/ singularOf(results[i].collectionName) = singularName
                 \/ singularOf(replaceFirst(results[i].collectionName, "directus_", "")) = singularName}
  IN  IF hits = {} THEN 0 ELSE CHOOSE i \in hits : \A j \in hits : i <= j

\* a faulty variant: every import is taken from the importing file's folder
importPathOf_sameFolder(isSystemCollection, isRelatedSystemCollection, relatedFileName) ==
  "'./" \o relatedFileName \o "'"

importPathOf(isSystemCollection, isRelatedSystemCollection, relatedFileName) ==
  IF isSystemCollection /\ isRelatedSystemCollection THEN "'./" \o relatedFileName \o "'"
  ELSE IF isSystemCollection /\ ~isRelatedSystemCollection THEN "'../" \o relatedFileName \o "'"
  ELSE IF ~isSystemCollection /\ isRelatedSystemCollection
    THEN "'./system/" \o relatedFileName \o "'"
  ELSE "'./" \o relatedFileName \o "'"

\* one import of generateImportStatements, before the duplicate check
importOf(singularName, related, isSystemCollection) ==
  LET isRelatedSystemCollection == isSystemName(related.collectionName)
      Import(relatedFileName, schemaName, typeName, importPath) ==
        [importKey |-> schemaName \o ":" \o relatedFileName,
         target |-> related.collectionName,
         importPath |-> importPath,
         line |-> "import { " \o schemaName \o ", type " \o typeName \o " } from "
                  \o importPath \o ";\n"]
      Named(relatedFileName, baseSingularName) ==
        Import(relatedFileName,
               IF isRelatedSystemCollection
               THEN "DrxDirectus" \o baseSingularName \o "Schema"
               ELSE "Drx" \o baseSingularName \o "Schema",
               IF isRelatedSystemCollection
               THEN "DrsDirectus" \o baseSingularName
               ELSE "Drs" \o baseSingularName,
               importPathOf(isSystemCollection, isRelatedSystemCollection, relatedFileName))
  IN  Named(toKebabCase(related.collectionName), replaceFirst(singularName, "Directus", ""))

\* the imports generateImportStatements emits, in order
RECURSIVE importsFrom(_, _, _, _)
importsFrom(names, results, isSystemCollection, done) ==
  LET Add(imp) ==
        IF \E i \in 1..Len(done) : done[i].importKey = imp.importKey
        THEN done
        ELSE Append(done, imp)
      Resolve(k) ==
        IF k = 0 THEN done ELSE Add(importOf(Head(names), results[k], isSystemCollection))
  IN  IF names = <<>> THEN done
      ELSE importsFrom(Tail(names), results, isSystemCollection,
                       Resolve(findRelatedCollection(results, Head(names))))

generateImportStatements(result, results, circularDeps, isSystemCollection) ==
  LET Lines(imports) == JoinWith([i \in 1..Len(imports) |-> imports[i].line], "")
  IN  Lines(importsFrom(extractRelatedCollections(result), results, isSystemCollection, <<>>))

generateFileSchemaImport(result, isSystemCollection) ==
  IF /\ Truthy(result.schema)
     /\ (includes(result.schema, "DrxFileSchema") \/ includes(result.schema, "DrxImageFileSchema"))
  THEN "import { DrxFileSchema, DrxImageFileSchema, type DrsFile, type DrsImageFile } from "
       \o (IF isSystemCollection THEN "'../file-schemas'" ELSE "'./file-schemas'") \o ";\n"
  ELSE ""

generateZodImport(result) ==
  IF Truthy(result.schema) THEN "import { z } from 'zod';\n" ELSE ""

(***************************************************************************)
(* FileWriterUtils.  Paths are relative to config.outputDir, which exists; *)
(* the text of file-schemas.ts is named by the function that produced it.  *)
(***************************************************************************)
generateFileContent(result, results, circularDeps, isSystemCollection) ==
  LET Content(imports) ==
        imports
        \o (IF includes(imports, "import") THEN "\n" ELSE "")
        \o (IF Truthy(result.schema) THEN result.schema \o "\n\n" ELSE "")
        \o (IF Truthy(result.type) THEN result.type \o "\n" ELSE "")
  IN  Content(generateZodImport(result)
              \o generateFileSchemaImport(result, isSystemCollection)
              \o generateImportStatements(result, results, circularDeps, isSystemCollection))

\* a faulty variant: every file is written to the output root
filePathOf_root(collectionName) == toKebabCase(collectionName) \o ".ts"

filePathOf(collectionName) ==
  IF isSystemName(collectionName)
  THEN "system/" \o toKebabCase(collectionName) \o ".ts"
  ELSE toKebabCase(collectionName) \o ".ts"

\* the files FileWriterUtils.writeFiles writes, in the order it writes them
filesOf(results) ==
  LET IsSystem(r) == isSystemName(r.collectionName)
      IsRegular(r) == ~isSystemName(r.collectionName)
      Files(ordered, circular) ==
        [k \in 1..Len(ordered) |->
           [path |-> filePathOf(ordered[k].collectionName),
            content |-> generateFileContent(ordered[k], results, circular,
                                            isSystemName(ordered[k].collectionName))]]
  IN  Files(Filter(results, IsSystem) \o Filter(results, IsRegular),
            detectCircularDependencies(buildDependencyGraph(results)))

fileSchemasFile(fetched) ==
  [path |-> "file-schemas.ts",
   content |-> IF fetched THEN "generateDynamicFileSchemas" ELSE "generateFallbackFileSchemas"]

(***************************************************************************)
(* CollectionUtils                                                         *)
(***************************************************************************)
foldersToFilter == <<"Dialogues", "Expert_System", "Models", "settings">>

\* a faulty variant: a requested collection is kept whatever its prefix
filterCollections_requestedKept(collections, config) ==
  LET Requested(c) == config.collections = <<>> \/ SeqIncludes(config.collections[1], c.collection)
      NotSystem(c) == \/ config.includeSystemCollections
                      \/ config.collections # <<>>
                      \/ ~isSystemName(c.collection)
      NotFolder(c) == ~SeqIncludes(foldersToFilter, c.collection)
  IN  Filter(Filter(Filter(collections, Requested), NotSystem), NotFolder)

filterCollections(collections, config) ==
  LET Requested(c) == config.collections = <<>> \/ SeqIncludes(config.collections[1], c.collection)
      NotSystem(c) == config.includeSystemCollections \/ ~isSystemName(c.collection)
      NotFolder(c) == ~SeqIncludes(foldersToFilter, c.collection)
  IN  Filter(Filter(Filter(collections, Requested), NotSystem), NotFolder)

(***************************************************************************)
(* The Directus instances generate() is run against                        *)
(***************************************************************************)
MaxCollections == 3
MaxFailures == 1

PlainField(name, own, type) == [Field(name, type) EXCEPT !.collection = own]
IdField(own) == [Field("id", "uuid") EXCEPT !.collection = own, !.special = <<"uuid">>,
                                             !.is_nullable = <<FALSE>>]
ManyToOne(name, own, target) ==
  [Field(name, "uuid") EXCEPT !.collection = own, !.special = <<"m2o">>,
                              !.foreign_key_table = target]

Catalogue ==
  << [collection |-> "articles",
      fields |-> << IdField("articles"),
                    [PlainField("links", "articles", "alias") EXCEPT !.special = <<"m2m">>] >>],
     [collection |-> "posts",
      fields |-> << IdField("posts"),
                    [PlainField("title", "posts", "varchar") EXCEPT !.required = <<TRUE>>],
                    ManyToOne("tag", "posts", "tags"),
                    ManyToOne("author", "posts", "users"),
                    [PlainField("date_created", "posts", "timestamp")
                       EXCEPT !.special = <<"date-created">>] >>],
     [collection |-> "tags",
      fields |-> << IdField("tags"),
                    PlainField("name", "tags", "varchar"),
                    ManyToOne("owner", "tags", "users"),
                    [PlainField("user_created", "tags", "uuid")
                       EXCEPT !.special = <<"user-created">>] >>],
     [collection |-> "users",
      fields |-> << PlainField("name", "users", "varchar"),
                    ManyToOne("post", "users", "posts"),
                    ManyToOne("account", "users", "directus_users"),
                    [ManyToOne("divider-parent", "users", "posts") EXCEPT !.interface = "divider"],
                    [PlainField("notice-info", "users", "alias") EXCEPT !.interface = "notice"] >>],
     [collection |-> "directus_users",
      fields |-> << IdField("directus_users"),
                    ManyToOne("owner_user", "directus_users", "users"),
                    [PlainField("avatar", "directus_users", "uuid")
                       EXCEPT !.interface = "file-image"] >>],
     [collection |-> "directus_roles",
      fields |-> << IdField("directus_roles"),
                    [PlainField("users", "directus_roles", "alias")
                       EXCEPT !.special = <<"o2m">>,
                              !.options = [NoOptions EXCEPT !.related_collection = "directus_users"]] >>],
     [collection |-> "timeline_events",
      fields |-> << ManyToOne("parent", "timeline_events", "timeline_events"),
                    ManyToOne("parent_timeline_event", "timeline_events", "timeline_events") >>] >>

\* the relation records the instance serves for its collections
relationsOf(collections) ==
  IF \E k \in 1..Len(collections) : collections[k].collection = "articles"
  THEN <<Rel("articles", "links", "tags"), NilRel>>
  ELSE <<>>

Instances ==
  {[collections |-> SubSeq(Catalogue, lo, hi),
    relations |-> relationsOf(SubSeq(Catalogue, lo, hi))] :
     <<lo, hi>> \in {w \in (1..Len(Catalogue)) \X (0..Len(Catalogue)) :
                       w[2] >= w[1] - 1 /\ w[2] - w[1] < MaxCollections}}

\* the constructor's defaults
DefaultConfig ==
  [auth |-> "token", generateSchemas |-> TRUE, generateTypes |-> TRUE,
   includeSystemCollections |-> FALSE, collections |-> <<>>]

Configs ==
  { DefaultConfig,
    [DefaultConfig EXCEPT !.includeSystemCollections = TRUE],
    [DefaultConfig EXCEPT !.generateTypes = FALSE],
    [DefaultConfig EXCEPT !.generateSchemas = FALSE],
    [DefaultConfig EXCEPT !.auth = "login", !.includeSystemCollections = TRUE],
    [DefaultConfig EXCEPT !.auth = "none"] }

(***************************************************************************)
(* Zodirectus.generate                                                     *)
(***************************************************************************)
VARIABLES
  pc,                \* the step generate() is at
  config,            \* ZodirectusConfig
  directus,          \* the instance: its collections and relation records
  zodRelationships,  \* ZodGenerator.relationships
  typeRelationships, \* TypeGenerator.relationships
  actualCollections, \* the filtered collections
  results,           \* GeneratedSchema[]
  i,                 \* position of the running loop
  dependencyGraph,
  circularDeps,
  written,           \* the files written, in order
  skipped,           \* the first-pass skips logged: [collection, step]
  failures,          \* failed metadata fetches so far
  error,             \* the step whose exception generate() rethrew, "" when none
  call               \* a direct call of a utility: [op, input, done, output]

vars == <<pc, config, directus, zodRelationships, typeRelationships, actualCollections,
          results, i, dependencyGraph, circularDeps, written, skipped, failures, error,
          call>>

Init ==
  /\ pc = "authenticate"
  /\ config \in Configs
  /\ directus \in Instances
  /\ zodRelationships = <<>>
  /\ typeRelationships = <<>>
  /\ actualCollections = <<>>
  /\ results = <<>>
  /\ i = 1
  /\ dependencyGraph = <<>>
  /\ circularDeps = <<>>
  /\ written = <<>>
  /\ skipped = <<>>
  /\ failures = 0
  /\ error = ""
  /\ call = [op |-> "none", input |-> "", done |-> FALSE, output |-> ""]

\* the outcomes of one metadata fetch: TRUE when it answers
FetchOutcomes == IF failures < MaxFailures THEN BOOLEAN ELSE {TRUE}

Throw(step) ==
  /\ pc' = "failed"
  /\ error' = step

Authenticate ==
  /\ pc = "authenticate"
  /\ \E loggedIn \in BOOLEAN :
       IF config.auth = "token" \/ (config.auth = "login" /\ loggedIn)
       THEN pc' = "setZodRelationships" /\ error' = error
       ELSE Throw("authenticate")
  /\ UNCHANGED <<call, config, directus, zodRelationships, typeRelationships, actualCollections,
                 results, i, dependencyGraph, circularDeps, written, skipped, failures>>

\* a faulty variant: a failed fetch of the relation records is rethrown
Zod_setRelationships_fatal ==
  /\ pc = "setZodRelationships"
  /\ \E answered \in BOOLEAN :
       IF answered
       THEN /\ zodRelationships' = directus.relations
            /\ pc' = "setTypeRelationships"
            /\ error' = error
       ELSE /\ Throw("setZodRelationships")
            /\ UNCHANGED zodRelationships
  /\ UNCHANGED <<call, config, directus, typeRelationships, actualCollections, results, i,
                 dependencyGraph, circularDeps, written, skipped, failures>>

Zod_setRelationships ==
  /\ pc = "setZodRelationships"
  /\ \E answered \in BOOLEAN :
       zodRelationships' = IF answered THEN directus.relations ELSE <<>>
  /\ pc' = "setTypeRelationships"
  /\ UNCHANGED <<call, config, directus, typeRelationships, actualCollections, results, i,
                 dependencyGraph, circularDeps, written, skipped, failures, error>>

Type_setRelationships ==
  /\ pc = "setTypeRelationships"
  /\ \E answered \in BOOLEAN :
       typeRelationships' = IF answered THEN directus.relations ELSE <<>>
  /\ pc' = "getCollections"
  /\ UNCHANGED <<call, config, directus, zodRelationships, actualCollections, results, i,
                 dependencyGraph, circularDeps, written, skipped, failures, error>>

GetCollections ==
  /\ pc = "getCollections"
  /\ \E answered \in BOOLEAN :
       IF answered
       THEN /\ actualCollections' = filterCollections(directus.collections, config)
            /\ pc' = "firstPass"
            /\ error' = error
       ELSE /\ Throw("getCollections")
            /\ UNCHANGED actualCollections
  /\ UNCHANGED <<call, config, directus, zodRelationships, typeRelationships, results, i,
                 dependencyGraph, circularDeps, written, skipped, failures>>

\* results.find(r => r.collectionName === name): its index, 0 when none
findResult(list, name) ==
  LET hits == {k \in 1..Len(list) : list[k].collectionName = name}
  IN  IF hits = {} THEN 0 ELSE CHOOSE k \in hits : \A j \in hits : k <= j

\* one iteration of the first loop, with its try/catch
FirstPass ==
  /\ pc = "firstPass"
  /\ i <= Len(actualCollections)
  /\ \E fetched \in FetchOutcomes :
       LET name == actualCollections[i].collection
           WithType(afterSchema, type) ==
             IF findResult(afterSchema, name) > 0
             THEN [afterSchema EXCEPT ![findResult(afterSchema, name)].type = type]
             ELSE Append(afterSchema, [collectionName |-> name, schema |-> Undefined,
                                       type |-> type])
           Settle(thrownBy, afterSchema, type) ==
             /\ results' = IF thrownBy \in {"fetch", "schema"} THEN results
                           ELSE IF thrownBy = "type" THEN afterSchema
                           ELSE IF config.generateTypes THEN WithType(afterSchema, type)
                           ELSE afterSchema
             /\ skipped' = IF thrownBy = "" THEN skipped
                           ELSE Append(skipped, [collection |-> name, step |-> thrownBy])
           Emit(schema, type) ==
             Settle(IF ~fetched THEN "fetch"
                    ELSE IF config.generateSchemas /\ schema = Threw THEN "schema"
                    ELSE IF config.generateTypes /\ type = Threw THEN "type"
                    ELSE "",
                    IF config.generateSchemas
                    THEN Append(results, [collectionName |-> name, schema |-> schema,
                                          type |-> Undefined])
                    ELSE results,
                    type)
       IN  /\ Emit(generateSchema(actualCollections[i], zodRelationships, FALSE),
                   generateType(actualCollections[i], typeRelationships))
           /\ failures' = IF fetched THEN failures ELSE failures + 1
  /\ i' = i + 1
  /\ UNCHANGED <<pc, call, config, directus, zodRelationships, typeRelationships, actualCollections,
                 dependencyGraph, circularDeps, written, error>>

\* a faulty variant: detection does not wait for the first loop to end
DetectCycles_early ==
  /\ pc = "firstPass"
  /\ LET Detect(graph) ==
           /\ dependencyGraph' = graph
           /\ circularDeps' = detectCircularDependencies(graph)
     IN  Detect(buildDependencyGraph(results))
  /\ pc' = "secondPass"
  /\ i' = 1
  /\ UNCHANGED <<call, config, directus, zodRelationships, typeRelationships, actualCollections,
                 results, written, skipped, failures, error>>

DetectCycles ==
  /\ pc = "firstPass"
  /\ i > Len(actualCollections)
  /\ LET Detect(graph) ==
           /\ dependencyGraph' = graph
           /\ circularDeps' = detectCircularDependencies(graph)
     IN  Detect(buildDependencyGraph(results))
  /\ pc' = "secondPass"
  /\ i' = 1
  /\ UNCHANGED <<call, config, directus, zodRelationships, typeRelationships, actualCollections,
                 results, written, skipped, failures, error>>

\* a faulty variant: only the entity a cycle starts with counts
isPartOfCircularDependency_firstOfCycle(cycles, name) ==
  \E c \in 1..Len(cycles) : cycles[c][1] = name

isPartOfCircularDependency(cycles, name) ==
  \E c \in 1..Len(cycles) : SeqIncludes(cycles[c], name)

\* one iteration of the second loop; nothing catches what it throws
SecondPass ==
  /\ pc = "secondPass"
  /\ i <= Len(results)
  /\ LET result == results[i]
         Regenerate(fetched, schema) ==
           IF ~fetched
           THEN /\ Throw("secondPassFetch")
                /\ failures' = failures + 1
                /\ UNCHANGED <<results, i>>
           ELSE IF schema = Threw
           THEN /\ Throw("secondPassSchema")
                /\ UNCHANGED <<results, i, failures>>
           ELSE /\ results' = [results EXCEPT ![i].schema = schema]
                /\ i' = i + 1
                /\ UNCHANGED <<pc, failures, error>>
         Revisit(found) ==
           IF ~(/\ Truthy(result.schema)
                /\ isPartOfCircularDependency(circularDeps, singularOf(result.collectionName))
                /\ found > 0)
           THEN /\ i' = i + 1
                /\ UNCHANGED <<pc, results, failures, error>>
           ELSE \E fetched \in FetchOutcomes :
                  Regenerate(fetched,
                             generateSchema(actualCollections[found], zodRelationships, TRUE))
     IN  Revisit(findResult([k \in 1..Len(actualCollections) |->
                               [collectionName |-> actualCollections[k].collection]],
                            result.collectionName))
  /\ UNCHANGED <<call, config, directus, zodRelationships, typeRelationships, actualCollections,
                 dependencyGraph, circularDeps, written, skipped>>

WriteFileSchemas ==
  /\ pc = "secondPass"
  /\ i > Len(results)
  /\ \E fetched \in BOOLEAN : written' = Append(written, fileSchemasFile(fetched))
  /\ pc' = "writeFiles"
  /\ UNCHANGED <<call, config, directus, zodRelationships, typeRelationships, actualCollections,
                 results, i, dependencyGraph, circularDeps, skipped, failures, error>>

WriteFiles ==
  /\ pc = "writeFiles"
  /\ written' = written \o filesOf(results)
  /\ pc' = "done"
  /\ UNCHANGED <<call, config, directus, zodRelationships, typeRelationships, actualCollections,
                 results, i, dependencyGraph, circularDeps, skipped, failures, error>>

Next ==
  \/ Authenticate
  \/ Zod_setRelationships
  \/ Type_setRelationships
  \/ GetCollections
  \/ FirstPass
  \/ DetectCycles
  \/ SecondPass
  \/ WriteFileSchemas
  \/ WriteFiles

Spec == Init /\ [][Next]_vars

(***************************************************************************)
(* Direct calls of the utilities: one call per behaviour, its input drawn  *)
(* by the initial state.                                                   *)
(***************************************************************************)
MaxLeadSegments == 1
MaxRecords == 2
MaxEdges == 4
\* the longest artifact list an import resolution is given
MaxArtifacts == 3

\* the inputs of the direct calls of one utility
Inputs(op) ==
  LET Cased(words) ==
        words \cup {ToUpperChar(CharAt(w, 1)) \o Tail(w) : w \in words \ {""}}
              \cup {toUpperCase(w) : w \in words}
      Plain == {"", "a", "s", "as", "user", "users", "tag", "tags", "glass", "class",
                "mass", "pass", "grass", "gas", "bus", "access", "process", "address",
                "status", "roles", "boxes", "categories", "leaves", "policies",
                "activity", "log", "news", "directus"}
      Irregular == {irregularPlurals[k][1] : k \in 1..Len(irregularPlurals)}
      Leads == {lead \in {"", "Audit", "User", "AuditUser"} :
                  Len(SplitCapitals(lead, "")) <= MaxLeadSegments}
      Trails == {"Users", "Roles", "Policies", "Activities", "Access", "Settings",
                 "User", "Activity", "Boxes", "S"}
      Segmented == {prefix \o lead \o trail :
                      prefix \in {"Directus", "Audit"}, lead \in Leads, trail \in Trails}
      Names == <<"posts", "directus_users", "settings", "tags", "Models", "directus_roles">>
      Chosen(names, chosen) == SelectSeq(names, LAMBDA n : n \in chosen)
      Reversed(names) == [k \in 1..Len(names) |-> names[Len(names) + 1 - k]]
      NameLists == {Chosen(order, chosen) :
                      order \in {Names, Reversed(Names)},
                      chosen \in SUBSET {Names[k] : k \in 1..Len(Names)}}
      Collections(names) == [k \in 1..Len(names) |-> [collection |-> names[k]]]
      Requests == {<<>>, << <<>> >>, << <<"tags", "posts">> >>,
                   << <<"directus_users", "posts", "settings", "comments">> >>}
      FilterConfigs == {[DefaultConfig EXCEPT !.collections = requested,
                                              !.includeSystemCollections = system] :
                          requested \in Requests, system \in BOOLEAN}
      \* fields of the collection articles, with at most two option hints or all six
      Hints == {[NoOptions EXCEPT !.junction_table = IF 1 \in given THEN "articles_tags" ELSE Undefined,
                                  !.related_collection = IF 2 \in given THEN "tags" ELSE Undefined,
                                  !.junction_collection = IF 3 \in given THEN "article_links" ELSE Undefined,
                                  !.collection = IF 4 \in given THEN "items" ELSE Undefined,
                                  !.many_collection = IF 5 \in given THEN "posts" ELSE Undefined,
                                  !.one_collection = IF 6 \in given THEN "users" ELSE Undefined] :
                  given \in {g \in SUBSET (1..6) : Cardinality(g) <= 2 \/ Cardinality(g) = 6}}
      Shapes == {<<"links", Undefined>>, <<"user_id", "list-m2m">>, <<"activity_logs", Undefined>>}
      Fields == {[Field(shape[1], "alias") EXCEPT !.collection = "articles", !.special = special,
                                                   !.foreign_key_table = table,
                                                   !.interface = shape[2], !.options = options] :
                   shape \in Shapes, options \in Hints, table \in {Undefined, "owners"},
                   special \in {<<"m2m">>, <<"m2o">>, <<"m2o", "m2m">>, <<"o2m">>, <<>>}}
      Sides(one, oneField, many, manyField, junction) ==
        [Rel(Undefined, Undefined, Undefined)
           EXCEPT !.one_collection = one, !.one_field = oneField, !.many_collection = many,
                  !.many_field = manyField, !.junction_collection = junction]
      Records == {Sides("articles", "links", "tags", "article", "articles_tags"),
                  Sides("articles", "links", "articles", "parent", Undefined),
                  Sides("authors", "works", "articles", "links", Undefined),
                  Sides("articles", "topics", "topics", "articles", "articles"),
                  Sides("groups", "members", "articles", "groups", "articles"),
                  Sides("articles", "self", "articles", "self", "articles"),
                  Sides("posts", "links", "tags", "links", "posts_tags"),
                  NilRel}
      RecordLists == UNION {[1..n -> Records] : n \in 0..MaxRecords}
      Lookups ==
        ({f \in Fields : f.options = NoOptions /\ f.foreign_key_table = Undefined} \X RecordLists)
        \cup (Fields \X {l \in RecordLists : Len(l) = 0 \/ (Len(l) = 1 /\ l[1] # NilRel)})
      \* graphs over three names: the keys in any order, each with its
      \* references in any order, self-references and names without key included
      Nodes == {"Post", "Tag", "User"}
      Orders == {order \in UNION {[1..n -> Nodes] : n \in 0..Cardinality(Nodes)} :
                   \A a, b \in 1..Len(order) : a # b => order[a] # order[b]}
      Edges(deps) == IF deps = <<>> THEN 0
                     ELSE Len(deps[1]) + (IF Len(deps) > 1 THEN Len(deps[2]) ELSE 0)
                          + (IF Len(deps) > 2 THEN Len(deps[3]) ELSE 0)
      Graphs == UNION {{[k \in 1..Len(keys) |-> [key |-> keys[k], deps |-> deps[k]]] :
                          deps \in {d \in [1..Len(keys) -> Orders] : Edges(d) <= MaxEdges}} :
                       keys \in Orders}
      \* artifact lists: the artifacts of four entities, a regular and a
      \* namespaced one of the same base name among them, in any order
      Artifact(name, schema) == [collectionName |-> name, schema |-> schema, type |-> Undefined]
      Artifacts ==
        {Artifact("users", "export const DrxUserSchema = z.object({ name: z.string() });"),
         Artifact("posts", "export const DrxPostSchema = z.object({ author: DrxUserSchema.nullable().optional() });"),
         Artifact("directus_users", "export const DrxDirectusUserSchema = z.object({ email: z.string() });"),
         Artifact("directus_roles", "export const DrxDirectusRoleSchema = z.object({ name: z.string() });")}
      ArtifactLists == {list \in UNION {[1..n -> Artifacts] : n \in 0..MaxArtifacts} :
                          \A a, b \in 1..Len(list) : a # b => list[a] # list[b]}
      Importers ==
        {Artifact("comments", "export const DrxCommentSchema = z.object({ post: DrxPostSchema.nullable().optional() });"),
         Artifact("posts", "export const DrxPostSchema = z.object({ author: DrxUserSchema.nullable().optional() });"),
         Artifact("directus_policies", "export const DrxDirectusPolicySchema = z.object({ role: DrxDirectusRoleSchema.nullable().optional() });"),
         Artifact("notes", "export const DrxNoteSchema = z.object({ owner: DrxDirectusUserSchema.optional(), editor: DrxUserSchema.optional() });")}
      \* target collection names, regular and namespaced
      Bases == {"users", "roles", "settings", "policies", "activity", "access", "files",
                "status", "news", "people", "children", "webhook_logs", "user_settings",
                "categories", "addresses", "boxes", "s", "dashboards"}
      Targets == {prefix \o base : prefix \in {"", "directus_"}, base \in Bases}
  IN  CASE op = "toSingular" ->
             {[op |-> op, input |-> w, done |-> FALSE, output |-> ""] :
                w \in Cased(Plain) \cup Cased(Irregular) \cup Segmented}
        [] op = "filterCollections" ->
             {[op |-> op, input |-> [collections |-> Collections(names), config |-> c],
               done |-> FALSE, output |-> <<>>] : names \in NameLists, c \in FilterConfigs}
        [] op = "getRelatedCollectionName" ->
             {[op |-> op, input |-> [field |-> l[1], relationships |-> l[2]],
               done |-> FALSE, output |-> ""] : l \in Lookups}
        [] op = "detectCircularDependencies" ->
             {[op |-> op, input |-> graph, done |-> FALSE,
               output |-> [visited |-> {}, cycles |-> <<>>, entered |-> <<>>]] : graph \in Graphs}
        [] op = "generateImportStatements" ->
             {[op |-> op,
               input |-> [result |-> result, results |-> list,
                          isSystemCollection |-> isSystemName(result.collectionName)],
               done |-> FALSE, output |-> ""] : result \in Importers, list \in ArtifactLists}
        [] op = "relatedSchemaName" ->
             {[op |-> op, input |-> target, done |-> FALSE, output |-> ""] : target \in Targets}

UtilInit ==
  /\ pc = "util"
  /\ config = DefaultConfig
  /\ directus = [collections |-> <<>>, relations |-> <<>>]
  /\ zodRelationships = <<>>
  /\ typeRelationships = <<>>
  /\ actualCollections = <<>>
  /\ results = <<>>
  /\ i = 1
  /\ dependencyGraph = <<>>
  /\ circularDeps = <<>>
  /\ written = <<>>
  /\ skipped = <<>>
  /\ failures = 0
  /\ error = ""
  /\ \E op \in {"toSingular", "filterCollections", "getRelatedCollectionName",
                 "detectCircularDependencies", "generateImportStatements",
                 "relatedSchemaName"} :
       call \in Inputs(op)

toSingular ==
  /\ call.op = "toSingular"
  /\ ~call.done
  /\ call' = [call EXCEPT !.done = TRUE, !.output = StringUtils_toSingular(call.input)]
  /\ UNCHANGED <<pc, config, directus, zodRelationships, typeRelationships, actualCollections,
                 results, i, dependencyGraph, circularDeps, written, skipped, failures, error>>

FilterCollections ==
  /\ call.op = "filterCollections"
  /\ ~call.done
  /\ call' = [call EXCEPT !.done = TRUE,
                          !.output = filterCollections(call.input.collections, call.input.config)]
  /\ UNCHANGED <<pc, config, directus, zodRelationships, typeRelationships, actualCollections,
                 results, i, dependencyGraph, circularDeps, written, skipped, failures, error>>

getRelatedCollectionName ==
  /\ call.op = "getRelatedCollectionName"
  /\ ~call.done
  /\ call' = [call EXCEPT !.done = TRUE,
                          !.output = RelationshipUtils_getRelatedCollectionName(
                                       call.input.field, call.input.relationships)]
  /\ UNCHANGED <<pc, config, directus, zodRelationships, typeRelationships, actualCollections,
                 results, i, dependencyGraph, circularDeps, written, skipped, failures, error>>

\* the output is the final state of the traversal: the cycles returned and
\* the nodes dfs was called on
DetectCircularDependencies ==
  /\ call.op = "detectCircularDependencies"
  /\ ~call.done
  /\ call' = [call EXCEPT !.done = TRUE, !.output = traversalOf(call.input)]
  /\ UNCHANGED <<pc, config, directus, zodRelationships, typeRelationships, actualCollections,
                 results, i, dependencyGraph, circularDeps, written, skipped, failures, error>>

GenerateImportStatements ==
  /\ call.op = "generateImportStatements"
  /\ ~call.done
  /\ call' = [call EXCEPT !.done = TRUE,
                          !.output = generateImportStatements(call.input.result, call.input.results,
                                                              <<>>, call.input.isSystemCollection)]
  /\ UNCHANGED <<pc, config, directus, zodRelationships, typeRelationships, actualCollections,
                 results, i, dependencyGraph, circularDeps, written, skipped, failures, error>>

\* the schema name getZodType emits for a relation field whose target is the
\* input collection
RelatedSchemaName ==
  /\ call.op = "relatedSchemaName"
  /\ ~call.done
  /\ call' = [call EXCEPT !.done = TRUE, !.output = relatedSchemaNameOf(call.input)]
  /\ UNCHANGED <<pc, config, directus, zodRelationships, typeRelationships, actualCollections,
                 results, i, dependencyGraph, circularDeps, written, skipped, failures, error>>

UtilNext ==
  \/ toSingular
  \/ FilterCollections
  \/ getRelatedCollectionName
  \/ DetectCircularDependencies
  \/ GenerateImportStatements
  \/ RelatedSchemaName

UtilSpec == UtilInit /\ [][UtilNext]_vars

(***************************************************************************)
(* Properties                                                              *)
(***************************************************************************)
\* the fetched collection a result was generated from
collectionOf(name) ==
  actualCollections[CHOOSE k \in 1..Len(actualCollections) :
                      actualCollections[k].collection = name]

\* the graph and the cycles have been computed
AfterDetection ==
  \/ pc \in {"secondPass", "writeFiles", "done"}
  \/ error \in {"secondPassFetch", "secondPassSchema"}

isGraphKey(name) == \E k \in 1..Len(dependencyGraph) : dependencyGraph[k].key = name

\* the names of other entities the texts of a result refer to
ReferenceTokens(result) ==
  LET Names(schemaMatches, typeMatches) ==
        {schemaTokenName(schemaMatches[k]) : k \in 1..Len(schemaMatches)}
        \cup {typeTokenName(typeMatches[k]) : k \in 1..Len(typeMatches)}
      Others(names, self) == {n \in names : ~isVariantName(n) /\ n # self}
  IN  Others(Names(IF Truthy(result.schema) THEN matchSchemaTokens(result.schema) ELSE <<>>,
                   IF Truthy(result.type) THEN matchTypeTokens(result.type) ELSE <<>>),
             singularOf(result.collectionName))

\* C1: once the cycles are detected, any two distinct graph keys that list
\* each other as dependencies are joined by a recorded closed 2-cycle, and
\* isCircularDependency holds for them in both orders; it never holds on an
\* empty cycle list.
C1_ReciprocalPairsYieldTwoCycle ==
  AfterDetection =>
    /\ \A a \in 1..Len(dependencyGraph), b \in 1..Len(dependencyGraph) :
         LET ka == dependencyGraph[a].key
             kb == dependencyGraph[b].key
         IN  (/\ ka # kb
              /\ SeqIncludes(dependencyGraph[a].deps, kb)
              /\ SeqIncludes(dependencyGraph[b].deps, ka))
             => /\ \E c \in 1..Len(circularDeps) :
                     circularDeps[c] \in {<<ka, kb, ka>>, <<kb, ka, kb>>}
                /\ isCircularDependency(ka, kb, circularDeps)
                /\ isCircularDependency(kb, ka, circularDeps)
    /\ circularDeps = <<>> =>
         \A a \in 1..Len(dependencyGraph), b \in 1..Len(dependencyGraph) :
           ~isCircularDependency(dependencyGraph[a].key, dependencyGraph[b].key, circularDeps)

\* C2: every key of the dependency graph maps to a non-empty list, a result
\* whose texts name no other entity when the graph is built is not a key,
\* and no results give an empty graph.
C2_GraphKeysHaveDependencies ==
  AfterDetection =>
    /\ \A k \in 1..Len(dependencyGraph) : dependencyGraph[k].deps # <<>>
    /\ (pc = "secondPass" /\ i = 1) =>
         \A r \in 1..Len(results) :
           ReferenceTokens(results[r]) = {} => ~isGraphKey(singularOf(results[r].collectionName))
    /\ results = <<>> => dependencyGraph = <<>>

\* a graph with keys beside a result that names no other entity
C2_Witness ==
  /\ pc = "secondPass" /\ i = 1
  /\ dependencyGraph # <<>>
  /\ \E r \in 1..Len(results) :
       /\ ReferenceTokens(results[r]) = {}
       /\ ~isGraphKey(singularOf(results[r].collectionName))

\* C3: for every entity with a UI-only field, both generators complete and
\* neither text of the entity's result mentions that field.
C3_UiOnlyFieldsNeverEmitted ==
  /\ \A r \in 1..Len(results) :
       LET fields == collectionOf(results[r].collectionName).fields
       IN  \A f \in 1..Len(fields) :
             isUiOnlyField(fields[f]) =>
               /\ ~(Truthy(results[r].schema) /\ includes(results[r].schema, fields[f].field))
               /\ ~(Truthy(results[r].type) /\ includes(results[r].type, fields[f].field))
  /\ \A s \in 1..Len(skipped) :
       skipped[s].step \in {"schema", "type"} =>
         LET fields == collectionOf(skipped[s].collection).fields
         IN  \A f \in 1..Len(fields) : ~isUiOnlyField(fields[f])

\* C4: every emitted m2o field whose resolved target is its own collection
\* is written as z.lazy(() => <own schema name>), in the first-pass text and
\* in the second-pass text.
C4_SelfReferenceAlwaysDeferred ==
  \A r \in 1..Len(results) :
    Truthy(results[r].schema) =>
      LET collection == collectionOf(results[r].collectionName)
      IN  \A f \in 1..Len(collection.fields) :
            (/\ ~isUiOnlyField(collection.fields[f])
             /\ SeqIncludes(collection.fields[f].special, "m2o")
             /\ Zod_getRelatedCollectionName(collection.fields[f], zodRelationships)
                  = collection.collection)
            => includes(results[r].schema,
                        "    " \o collection.fields[f].field \o ": z.lazy(() => "
                        \o schemaNameOf(collection) \o ")")

\* the path C5 expects between two entities
ExpectedImportPath(currentIsSystem, targetIsSystem, file) ==
  IF ~currentIsSystem /\ targetIsSystem THEN "'./system/" \o file \o "'"
  ELSE IF currentIsSystem /\ ~targetIsSystem THEN "'../" \o file \o "'"
  ELSE "'./" \o file \o "'"

\* C5: in every written entity file, an import line that takes names from
\* the file of another entity uses './system/<file>' from a root entity to
\* a namespaced one, '../<file>' from a namespaced entity to a root one,
\* and './<file>' between entities of the same status.
C5_ImportPathsFollowNamespaces ==
  \A w \in 1..Len(written), r \in 1..Len(results), t \in 1..Len(results) :
    written[w].path = filePathOf(results[r].collectionName) =>
      LET file == toKebabCase(results[t].collectionName)
      IN  \A path \in {"'./" \o file \o "'", "'../" \o file \o "'", "'./system/" \o file \o "'"} :
            includes(written[w].content, " } from " \o path \o ";\n") =>
              path = ExpectedImportPath(isSystemName(results[r].collectionName),
                                        isSystemName(results[t].collectionName), file)

\* files written with an import in each direction across the namespaces
C5_Witness ==
  /\ pc = "done"
  /\ \E w \in 1..Len(written) :
       ~startsWith(written[w].path, "system/") /\ includes(written[w].content, " } from './system/")
  /\ \E w \in 1..Len(written) :
       /\ startsWith(written[w].path, "system/")
       /\ includes(written[w].content, ", type DrsUser } from '../users';")
  /\ \E w \in 1..Len(written) :
       /\ startsWith(written[w].path, "system/")
       /\ includes(written[w].content, " } from './directus-users';")

\* the omit list C6 expects for an entity
ExpectedOmit(collection) ==
  LET Present(name) == HasFieldNamed(collection.fields, name)
  IN  <<"id">> \o SelectSeq(<<"user_created", "date_created", "user_updated", "date_updated">>,
                            Present)

WithoutId(r) ==
  ~HasFieldNamed(Filter(collectionOf(results[r].collectionName).fields, NotUiOnly), "id")

\* the synthetic id opens the field list of both texts
SyntheticIdFirst(r) ==
  /\ Truthy(results[r].schema) =>
       includes(results[r].schema, "z.object({\n    id: z.string().uuid().optional()")
  /\ Truthy(results[r].type) =>
       includes(results[r].type,
                "export interface " \o typeNameOf(collectionOf(results[r].collectionName))
                \o " {\n  id?: string;")

C8_SkippedEntityLeavesNoTrace ==
  \A s \in 1..Len(skipped) :
    /\ findResult(results, skipped[s].collection) = 0
    /\ ~isGraphKey(singularOf(skipped[s].collection))
    /\ \A w \in 1..Len(written) : written[w].path # filePathOf(skipped[s].collection)

\* C9: generate() fails only when signing in or listing the collections
\* fails, never over one entity; when it returns, every result has its file.
C9_EntityFailureNeverAborts ==
  /\ pc = "failed" => error \in {"authenticate", "getCollections"}
  /\ pc = "done" =>
       \A r \in 1..Len(results) :
         \E w \in 1..Len(written) : written[w].path = filePathOf(results[r].collectionName)

\* C10: the graph, the cycles and the second loop exist only once every
\* filtered entity has its first-pass result or was skipped, and files are
\* written only once the second loop has passed every result, the cyclic
\* ones rewritten.
C10_PassesRunInOrder ==
  /\ (AfterDetection \/ dependencyGraph # <<>> \/ circularDeps # <<>>) =>
       \A k \in 1..Len(actualCollections) :
         \/ findResult(results, actualCollections[k].collection) > 0
         \/ \E s \in 1..Len(skipped) : skipped[s].collection = actualCollections[k].collection
  /\ written # <<>> =>
       /\ pc \in {"writeFiles", "done"}
       /\ i > Len(results)
       /\ \A r \in 1..Len(results) :
            (/\ Truthy(results[r].schema)
             /\ isPartOfCircularDependency(circularDeps, singularOf(results[r].collectionName)))
            => includes(results[r].schema, ": z.ZodType<any> = z.lazy(() => z.object({")

\* a finished run with a skipped entity, a cycle and entity files
C10_Witness ==
  /\ pc = "done"
  /\ skipped # <<>>
  /\ circularDeps # <<>>
  /\ Len(written) > 2

\* a direct call of toSingular has returned
Singularized == call.op = "toSingular" /\ call.done

\* C11: a word that equals a key of the irregular table, case aside, gives
\* the table's singular in the word's case pattern: upper case for an
\* upper-case word, a capital first letter for a capitalised word, lower
\* case for a lower-case word.
C11_IrregularPluralsKeepCase ==
  (Singularized /\ IsIrregular(toLowerCase(call.input))) =>
    LET singular == IrregularOf(toLowerCase(call.input))
    IN  /\ call.input = toUpperCase(call.input) => call.output = toUpperCase(singular)
        /\ (call.input # toUpperCase(call.input) /\ IsUpper(CharAt(call.input, 1))) =>
             call.output = ToUpperChar(CharAt(singular, 1)) \o Tail(singular)
        /\ call.input = toLowerCase(call.input) => call.output = singular

\* Children has given Child
C11_Witness == Singularized /\ call.input = "Children" /\ call.output = "Child"

\* C12: a word made of 'Directus' and capitalised segments keeps the prefix
\* and its leading segments, and only its last segment changes: a final
\* 'ies' becomes 'y', otherwise a final 's' is removed.
C12_DirectusWordsSingulariseLastSegment ==
  Singularized =>
    LET parts == SplitCapitals(call.input, "")
        Last(trail) == IF endsWith(trail, "ies") THEN DropLast(trail, 3) \o "y"
                       ELSE IF endsWith(trail, "s") THEN DropLast(trail, 1)
                       ELSE trail
    IN  (Len(parts) >= 2 /\ parts[1] = "Directus") =>
          call.output = JoinWith(SubSeq(parts, 1, Len(parts) - 1), "") \o Last(parts[Len(parts)])

\* C13: a one-segment word that reaches the final-s rule is returned as it
\* is when its lower-case stem ends with glas, clas, mas, pas, gras, ga, bu
\* or acces, and loses its final s otherwise; a word of several segments
\* loses its final s even when its last segment is on that list.
C13_FinalSRemovalIsGuarded ==
  Singularized =>
    LET lowerWord == toLowerCase(call.input)
        OneSegment == \/ call.input = lowerWord
                      \/ call.input = toUpperCase(call.input)
                      \/ /\ IsUpper(CharAt(call.input, 1))
                         /\ Tail(call.input) = toLowerCase(Tail(call.input))
        Reaches == /\ Len(lowerWord) > 2
                   /\ endsWith(lowerWord, "s")
                   /\ ~IsIrregular(lowerWord)
                   /\ ~endsWith(lowerWord, "ies")
                   /\ ~endsWith(lowerWord, "ves")
                   /\ ~(endsWith(lowerWord, "es")
                        /\ CharAt(lowerWord, Len(lowerWord) - 2) \in {"s", "x", "z", "h"})
        Listed(stem) == \E ending \in {"glas", "clas", "mas", "pas", "gras", "ga", "bu", "acces"} :
                          endsWith(stem, ending)
    IN  /\ (OneSegment /\ Reaches) =>
             call.output = IF Listed(DropLast(lowerWord, 1)) THEN call.input
                           ELSE DropLast(call.input, 1)
        /\ (/\ Len(SplitCapitals(call.input, "")) >= 2
            /\ IsLower(CharAt(call.input, Len(call.input) - 1))
            /\ endsWith(call.input, "s")
            /\ Listed(DropLast(lowerWord, 1))) =>
             call.output = DropLast(call.input, 1)

\* Access has been returned as it is
C13_Witness == Singularized /\ call.input = "Access" /\ call.output = "Access"

Occurrences(text, part) ==
  Cardinality({k \in 1..(Len(text) - Len(part) + 1) : SubSeq(text, k, k + Len(part) - 1) = part})

\* the results, other than results[r] itself, whose singular name the text
\* of results[r] references
RelatedEntities(r) ==
  LET Among(names) ==
        {t \in 1..Len(results) :
           t # r /\ SeqIncludes(names, singularOf(results[t].collectionName))}
  IN  Among(extractRelatedCollections(results[r]))

\* the layout C15 expects of the file of results[r], given the entities an
\* import line is due for: the zod import iff there is validator text, the
\* file-schemas import iff that text names DrxFileSchema or
\* DrxImageFileSchema, one import line per entity, a blank line, the
\* validator text, a blank line, the type text
HasLayout(content, r, entities) ==
  LET result == results[r]
      head == (IF Truthy(result.schema) THEN "import { z } from 'zod';\n" ELSE "")
              \o (IF /\ Truthy(result.schema)
                     /\ \/ includes(result.schema, "DrxFileSchema")
                        \/ includes(result.schema, "DrxImageFileSchema")
                  THEN "import { DrxFileSchema, DrxImageFileSchema, type DrsFile, type DrsImageFile } from "
                       \o (IF isSystemName(result.collectionName)
                           THEN "'../file-schemas'" ELSE "'./file-schemas'") \o ";\n"
                  ELSE "")
      body == (IF Truthy(result.schema) THEN result.schema \o "\n\n" ELSE "")
              \o (IF Truthy(result.type) THEN result.type \o "\n" ELSE "")
      Lines(block) ==
        /\ Occurrences(block, "\n") = Cardinality(entities)
        /\ Occurrences(block, "import { ") = Cardinality(entities)
        /\ \A t \in entities :
             Occurrences(block, "/" \o toKebabCase(results[t].collectionName) \o "';\n") = 1
      Between(mid) ==
        IF head = "" /\ entities = {} THEN mid = ""
        ELSE endsWith(mid, "\n") /\ Lines(DropLast(mid, 1))
  IN  /\ Len(content) >= Len(head) + Len(body)
      /\ startsWith(content, head)
      /\ endsWith(content, body)
      /\ Between(SubSeq(content, Len(head) + 1, Len(content) - Len(body)))

\* C15: the file written for a result holds, in this order, the zod import
\* iff the result has validator text, the file-schemas import iff that text
\* names DrxFileSchema or DrxImageFileSchema, exactly one import line for
\* each distinct result its text references, a blank line, the validator
\* text, a blank line and the type text.
C15_FileContentLayout ==
  pc = "done" =>
    \A w \in 1..Len(written), r \in 1..Len(results) :
      written[w].path = filePathOf(results[r].collectionName) =>
        HasLayout(written[w].content, r, RelatedEntities(r))

\* C16: after writeFiles, every result has exactly one file, at
\* system/<kebab-case name>.ts when its name starts with 'directus_' and at
\* <kebab-case name>.ts otherwise, no file at the other of the two places,
\* and there are as many entity files as results.
C16_OneFilePerResult ==
  pc = "done" =>
    /\ Cardinality({w \in 1..Len(written) : written[w].path # "file-schemas.ts"}) = Len(results)
    /\ \A r \in 1..Len(results) :
         LET file == toKebabCase(results[r].collectionName) \o ".ts"
             system == startsWith(results[r].collectionName, "directus_")
             At(path) == {w \in 1..Len(written) : written[w].path = path}
         IN  /\ Cardinality(At(IF system THEN "system/" \o file ELSE file)) = 1
             /\ At(IF system THEN file ELSE "system/" \o file) = {}

\* a run has written a namespaced and a root entity, each to its own place
C16_Witness ==
  /\ pc = "done"
  /\ Len(results) = 3
  /\ \E w \in 1..Len(written) : written[w].path = "system/directus-roles.ts"
  /\ \E w \in 1..Len(written) : written[w].path = "timeline-events.ts"

Filtered == call.op = "filterCollections" /\ call.done

\* C17: filterCollections returns, in the order of its input, exactly the
\* collections that are listed in config.collections when a list is given,
\* do not start with 'directus_' unless includeSystemCollections is set
\* (whether or not the list names them), and are not one of Dialogues,
\* Expert_System, Models, settings.
C17_FilterKeepsExactlyTheSelected ==
  Filtered =>
    LET given == call.input.config.collections
        system == call.input.config.includeSystemCollections
        Kept(c) ==
          /\ given # <<>> => \E k \in 1..Len(given[1]) : given[1][k] = c.collection
          /\ system \/ ~startsWith(c.collection, "directus_")
          /\ c.collection \notin {"Dialogues", "Expert_System", "Models", "settings"}
    IN  call.output = SelectSeq(call.input.collections, Kept)

\* a system collection that the list names has been dropped with the flag off
C17_Witness ==
  /\ Filtered
  /\ ~call.input.config.includeSystemCollections
  /\ call.input.config.collections = << <<"directus_users", "posts", "settings", "comments">> >>
  /\ call.input.collections
       = << [collection |-> "directus_roles"], [collection |-> "settings"],
            [collection |-> "directus_users"], [collection |-> "posts"] >>
  /\ call.output = << [collection |-> "posts"] >>

Resolved == call.op = "getRelatedCollectionName" /\ call.done

\* the option hints of a field in the order C18 gives them
HintsInOrder(options) ==
  <<options.junction_table, options.related_collection, options.junction_collection,
    options.collection, options.many_collection, options.one_collection>>

\* C18: RelationshipUtils.getRelatedCollectionName returns the foreign key
\* table of an m2o field that has one, whatever its options; otherwise, for
\* an m2m field, the first hint present among junction_table,
\* related_collection, junction_collection, collection, many_collection,
\* one_collection, whatever the relationship records hold.
C18_HintsResolveInFixedOrder ==
  Resolved =>
    LET field == call.input.field
        hints == HintsInOrder(field.options)
        present == {k \in 1..Len(hints) : hints[k] \notin {Undefined, Null, ""}}
        toOne == /\ \E k \in 1..Len(field.special) : field.special[k] = "m2o"
                 /\ field.foreign_key_table \notin {Undefined, Null, ""}
        toMany == \E k \in 1..Len(field.special) : field.special[k] = "m2m"
    IN  /\ toOne => call.output = field.foreign_key_table
        /\ (~toOne /\ toMany /\ present # {}) =>
             call.output = hints[CHOOSE k \in present : \A other \in present : k <= other]

\* an m2m field with the hints collection and one_collection and a record
\* naming another target has resolved to the hint collection
C18_Witness ==
  /\ Resolved
  /\ call.input.field.special = <<"m2m">>
  /\ call.input.field.options.junction_table = Undefined
  /\ call.input.field.options.collection = "items"
  /\ call.input.field.options.one_collection = "users"
  /\ Len(call.input.relationships) = 1
  /\ call.input.relationships[1].many_collection = "tags"
  /\ call.output = "items"

\* C19: for an m2m field without option hints and a list of records,
\* RelationshipUtils.getRelatedCollectionName returns the many side of a
\* record whose one side is the field's entity and field and whose many
\* side is another entity; else the one side of a record whose many side is
\* the field's entity and field and whose one side is another entity; else,
\* from a record whose junction is the field's entity, a side that is not
\* that entity; else null.  It never returns the field's own entity.
C19_RecordsResolveInFixedOrder ==
  Resolved =>
    LET field == call.input.field
        rels == call.input.relationships
        current == field.collection
        hints == HintsInOrder(field.options)
        toOne == /\ \E k \in 1..Len(field.special) : field.special[k] = "m2o"
                 /\ field.foreign_key_table \notin {Undefined, Null, ""}
        toMany == \E k \in 1..Len(field.special) : field.special[k] = "m2m"
        oneSide == {k \in 1..Len(rels) : /\ rels[k].one_collection = current
                                          /\ rels[k].one_field = field.field
                                          /\ rels[k].many_collection # current}
        manySide == {k \in 1..Len(rels) : /\ rels[k].many_collection = current
                                           /\ rels[k].many_field = field.field
                                           /\ rels[k].one_collection # current}
        junction == {k \in 1..Len(rels) :
                       /\ rels[k].junction_collection = current
                       /\ {rels[k].one_collection, rels[k].many_collection} # {current}}
    IN  (/\ toMany
         /\ ~toOne
         /\ \A k \in 1..Len(hints) : hints[k] \in {Undefined, Null, ""}
         /\ \A k \in 1..Len(rels) : ~rels[k].nil) =>
          /\ call.output # current
          /\ IF oneSide # {} THEN \E k \in oneSide : call.output = rels[k].many_collection
             ELSE IF manySide # {} THEN \E k \in manySide : call.output = rels[k].one_collection
             ELSE IF junction # {}
               THEN \E k \in junction :
                      call.output \in {rels[k].one_collection, rels[k].many_collection} \ {current}
             ELSE call.output = Null

\* a many-side record placed after a junction record has given the target
C19_Witness ==
  /\ Resolved
  /\ call.input.field.special = <<"m2m">>
  /\ call.input.field.field = "links"
  /\ Len(call.input.relationships) = 2
  /\ call.input.relationships[1].junction_collection = "articles"
  /\ call.input.relationships[1].one_collection = "groups"
  /\ call.input.relationships[2].many_field = "links"
  /\ call.input.relationships[2].one_collection = "authors"
  /\ call.output = "authors"

\* the m2m-tagged fields of a collection that have no option hint
UnhintedM2m(collection) ==
  {k \in 1..Len(collection.fields) :
     /\ SeqIncludes(collection.fields[k].special, "m2m")
     /\ ~SeqIncludes(collection.fields[k].special, "m2o")
     /\ \A hint \in 1..6 :
          HintsInOrder(collection.fields[k].options)[hint] \in {Undefined, Null, ""}}

\* C20: generate() never fails at the fetch of the relation records; a
\* generator whose fetch failed holds an empty list, and with an empty list
\* every m2m-tagged field without option hints is emitted without a
\* target, in the validator text and in the type text, and resolves to null
\* under any field name.
C20_FailedRelationFetchLeavesNoTarget ==
  /\ error \notin {"setZodRelationships", "setTypeRelationships"}
  /\ zodRelationships \in {<<>>, directus.relations}
  /\ typeRelationships \in {<<>>, directus.relations}
  /\ \A r \in 1..Len(results) :
       LET collection == collectionOf(results[r].collectionName)
           Renamed(field) == {[field EXCEPT !.field = name] :
                                name \in {field.field, "user_id", "tags", "activity_logs", "enables"}}
       IN  \A k \in UnhintedM2m(collection) :
             /\ (zodRelationships = <<>> /\ Truthy(results[r].schema)) =>
                  /\ includes(results[r].schema,
                              "// Field: " \o collection.fields[k].field
                              \o "\n//   Special: [m2m]\n//   Interface: \n//   Related Collection: Unknown\n")
                  /\ ~includes(results[r].schema, collection.fields[k].field \o ": z.array(Drx")
                  /\ ~includes(results[r].schema, collection.fields[k].field \o ": z.lazy(")
                  /\ ~includes(results[r].schema, collection.fields[k].field \o ": Drx")
             /\ (typeRelationships = <<>> /\ Truthy(results[r].type)) =>
                  ~includes(results[r].type, collection.fields[k].field \o "?: Drs")
             /\ zodRelationships = <<>> =>
                  \A field \in Renamed(collection.fields[k]) :
                    Zod_getRelatedCollectionName(field, zodRelationships) = Null
             /\ typeRelationships = <<>> =>
                  \A field \in Renamed(collection.fields[k]) :
                    Type_getRelatedCollectionName(field, typeRelationships) = Null

\* a run whose two fetches of the relation records failed has written the
\* file of articles with the m2m field links and no target
C20_Witness ==
  /\ pc = "done"
  /\ directus.relations # <<>>
  /\ zodRelationships = <<>>
  /\ typeRelationships = <<>>
  /\ \E w \in 1..Len(written) :
       /\ written[w].path = "articles.ts"
       /\ includes(written[w].content, "// Field: links\n")
       /\ includes(written[w].content, "//   Related Collection: Unknown\n")
       /\ includes(written[w].content, "  links?: any;")

\* the kind C21 expects of a field: the first of the chain UI-only, File,
\* the interface kinds, Relation (an m2o field with a foreign key table),
\* Choice, DateTime, Scalar
ExpectedKind(field) ==
  IF isUiOnlyField(field) THEN "ui-only"
  ELSE IF isFileField(field) THEN "file"
  ELSE IF \/ isRadioButtonField(field) \/ isDropdownMultipleField(field)
          \/ isCheckboxTreeField(field) \/ isAutocompleteField(field)
          \/ isTagField(field) \/ isRepeaterField(field) THEN "interface"
  ELSE IF /\ isRelationField(field)
          /\ SeqIncludes(field.special, "m2o")
          /\ Truthy(field.foreign_key_table) THEN "relation"
  ELSE IF Len(field.options.choices) > 0 \/ Len(field.options.options) > 0 THEN "choice"
  ELSE IF isDateTimeField(field) THEN "datetime"
  ELSE "scalar"

\* C21: in the texts of every result, a field whose first kind in the chain
\* is Relation is written as a reference to its target (a Drx schema name in
\* the validator text, a Drs type name in the type text), also when its
\* name, type or interface matches the DateTime predicate; and a field whose
\* first kind is DateTime is written as a date/time string.
C21_FirstKindOfChainIsEmitted ==
  \A r \in 1..Len(results) :
    LET collection == collectionOf(results[r].collectionName)
    IN  \A f \in 1..Len(collection.fields) :
          LET field == collection.fields[f]
              SchemaLine(expr) == includes(results[r].schema, "    " \o field.field \o ": " \o expr)
              TypeLine(expr) ==
                \/ includes(results[r].type, "  " \o field.field \o "?: " \o expr)
                \/ includes(results[r].type, "  " \o field.field \o ": " \o expr)
          IN  /\ (ExpectedKind(field) = "relation" /\ Truthy(results[r].schema)) =>
                   SchemaLine("Drx") \/ SchemaLine("z.lazy(() => Drx")
              /\ (ExpectedKind(field) = "relation" /\ Truthy(results[r].type)) =>
                   TypeLine("Drs")
              /\ (ExpectedKind(field) = "datetime" /\ Truthy(results[r].schema)) =>
                   SchemaLine("z.string().date") \/ SchemaLine("z.string().time()")
              /\ (ExpectedKind(field) = "datetime" /\ Truthy(results[r].type)) =>
                   TypeLine("string")

\* the line of text that starts with the first occurrence of start, up to
\* its line feed; "" when start does not occur
LineFrom(text, start) ==
  LET Upto(rest) ==
        IF indexOf(rest, "\n") = 0 THEN rest ELSE SubSeq(rest, 1, indexOf(rest, "\n") - 1)
      At(k) == IF k = 0 THEN "" ELSE Upto(DropFirst(text, k - 1))
  IN  IF text \in {Undefined, Null} THEN "" ELSE At(indexOf(text, start))

\* C22: in both texts of every result, an emitted field that is nullable
\* and not required carries nullable and then optional, one that is not
\* required and not nullable carries optional alone, and a required field
\* carries neither.
C22_ModifiersInFixedOrder ==
  \A r \in 1..Len(results) :
    LET collection == collectionOf(results[r].collectionName)
    IN  \A f \in 1..Len(collection.fields) :
          LET field == collection.fields[f]
              required == field.required = <<TRUE>>
              nullable == field.is_nullable # <<FALSE>>
              schemaLine == LineFrom(results[r].schema, "    " \o field.field \o ": ")
              typeLine == LineFrom(results[r].type, "  " \o field.field)
              Ends(line, end) == endsWith(line, end) \/ endsWith(line, end \o ",")
          IN  ~isUiOnlyField(field) =>
                /\ schemaLine # "" =>
                     /\ Ends(schemaLine, ".nullable().optional()") <=> (nullable /\ ~required)
                     /\ Ends(schemaLine, ".optional()") <=> ~required
                     /\ includes(schemaLine, ".nullable()") <=> (nullable /\ ~required)
                /\ typeLine # "" =>
                     /\ startsWith(typeLine, "  " \o field.field \o "?: ") <=> ~required
                     /\ endsWith(typeLine, " | null;") <=> (nullable /\ ~required)

\* C23: in the graph built from the results, the dependencies of a key hold
\* neither the key itself, nor File, nor ImageFile, nor a name that ends
\* with Create, Update or Get.
C23_GraphLeavesOutSelfFilesAndVariants ==
  \A k \in 1..Len(dependencyGraph) :
    \A d \in 1..Len(dependencyGraph[k].deps) :
      LET name == dependencyGraph[k].deps[d]
      IN  /\ name # dependencyGraph[k].key
          /\ name \notin {"File", "ImageFile"}
          /\ \A suffix \in {"Create", "Update", "Get"} : ~endsWith(name, suffix)

Traversed == call.op = "detectCircularDependencies" /\ call.done

\* the names a graph mentions, and its edges
NamesOf(graph) ==
  {graph[k].key : k \in 1..Len(graph)}
  \cup UNION {{graph[k].deps[d] : d \in 1..Len(graph[k].deps)} : k \in 1..Len(graph)}

EdgesOf(graph) ==
  UNION {{<<graph[k].key, graph[k].deps[d]>> : d \in 1..Len(graph[k].deps)} : k \in 1..Len(graph)}

\* the pairs <<x, y>> with a directed path of at least one edge from x to y
RECURSIVE PathsWithin(_, _, _)
PathsWithin(edges, paths, steps) ==
  IF steps = 0 THEN paths
  ELSE PathsWithin(edges,
                   paths \cup {<<pe[1][1], pe[2][2]>> :
                                 pe \in {q \in paths \X edges : q[1][2] = q[2][1]}},
                   steps - 1)

OnCycle(graph) ==
  {x \in NamesOf(graph) :
     <<x, x>> \in PathsWithin(EdgesOf(graph), EdgesOf(graph), Cardinality(NamesOf(graph)))}

\* C24: detectCircularDependencies calls dfs on each node at most once, and
\* every cycle it returns has at least two elements, ends with its first
\* element, repeats no other name, and steps along edges of the graph; a
\* graph without a directed cycle yields no cycle.
C24_CyclesAreClosedPathsOfTheGraph ==
  Traversed =>
    LET entered == call.output.entered
        cycles == call.output.cycles
    IN  /\ \A a, b \in 1..Len(entered) : a # b => entered[a] # entered[b]
        /\ \A c \in 1..Len(cycles) :
             LET cycle == cycles[c]
             IN  /\ Len(cycle) >= 2
                 /\ cycle[1] = cycle[Len(cycle)]
                 /\ \A a, b \in 1..(Len(cycle) - 1) : a # b => cycle[a] # cycle[b]
                 /\ \A k \in 1..(Len(cycle) - 1) :
                      <<cycle[k], cycle[k + 1]>> \in EdgesOf(call.input)
        /\ OnCycle(call.input) = {} => cycles = <<>>

\* a graph with three keys has given the cycle Post, Tag, User, Post
C24_Witness ==
  /\ Traversed
  /\ Len(call.input) = 3
  /\ call.output.entered = <<"Post", "Tag", "User">>
  /\ call.output.cycles = << <<"Post", "Tag", "User", "Post">> >>

\* C27: every name that lies on a directed cycle of the graph is in one of
\* the cycles detectCircularDependencies returns.
C27_EveryCycleMemberIsReported ==
  Traversed =>
    \A x \in OnCycle(call.input) :
      \E c \in 1..Len(call.output.cycles) : SeqIncludes(call.output.cycles[c], x)

\* the four variants of a validator text are declared in deferred form
\* (lazy = TRUE) or in plain form
DeclaresVariants(schema, singularName, lazy) ==
  \A variant \in {"", "Create", "Update", "Get"} :
    includes(schema, "export const Drx" \o singularName \o variant \o "Schema"
                     \o (IF lazy THEN ": z.ZodType<any> = z.lazy(() => " ELSE " = "))

InRecordedCycle(name) ==
  \E c \in 1..Len(circularDeps) : \E k \in 1..Len(circularDeps[c]) : circularDeps[c][k] = name

\* a step after the first pass keeps the list of results, every type text,
\* and the validator text of a result whose name is in no recorded cycle
LaterStepKeepsFirstPassTexts ==
  pc \in {"secondPass", "writeFiles"} =>
    /\ Len(results') = Len(results)
    /\ circularDeps' = circularDeps
    /\ \A r \in 1..Len(results) :
         /\ results'[r].collectionName = results[r].collectionName
         /\ results'[r].type = results[r].type
         /\ (~InRecordedCycle(singularOf(results[r].collectionName)) =>
               results'[r].schema = results[r].schema)

\* when generate() has ended, a validator text declares its four variants in
\* deferred form if its singular name is in a recorded cycle, in plain form
\* otherwise
EndedWithCyclicValidatorsDeferred ==
  pc = "done" =>
    \A r \in 1..Len(results) :
      Truthy(results[r].schema) =>
        LET name == singularOf(results[r].collectionName)
        IN  /\ DeclaresVariants(results[r].schema, name, TRUE) <=> InRecordedCycle(name)
            /\ DeclaresVariants(results[r].schema, name, FALSE) <=> ~InRecordedCycle(name)

\* C25: when generate() has ended, the validator text of a result declares
\* its four variants in deferred form if and only if its singular name is in
\* a recorded cycle; and no step after the first pass changes the list of
\* results, a type text, or the validator text of a result whose name is in
\* no recorded cycle.
C25_OnlyCyclicValidatorsAreReEmitted ==
  []EndedWithCyclicValidatorsDeferred /\ [][LaterStepKeepsFirstPassTexts]_vars

\* a run has ended with one validator text in deferred form and another in
\* plain form
C25_Witness ==
  /\ pc = "done"
  /\ \E r \in 1..Len(results) :
       /\ Truthy(results[r].schema)
       /\ InRecordedCycle(singularOf(results[r].collectionName))
       /\ DeclaresVariants(results[r].schema, singularOf(results[r].collectionName), TRUE)
  /\ \E r \in 1..Len(results) :
       /\ Truthy(results[r].schema)
       /\ ~InRecordedCycle(singularOf(results[r].collectionName))
       /\ DeclaresVariants(results[r].schema, singularOf(results[r].collectionName), FALSE)

\* the artifacts of a list that define the entity of a singular name
DefinersOf(list, singularName) ==
  {k \in 1..Len(list) : singularOf(list[k].collectionName) = singularName}

\* the import line for the symbols of a singular name from the file of a
\* defining artifact
ImportLineOf(singularName, definer, isSystemCollection) ==
  "import { Drx" \o singularName \o "Schema, type Drs" \o singularName \o " } from "
  \o importPathOf(isSystemCollection, isSystemName(definer.collectionName),
                  toKebabCase(definer.collectionName)) \o ";\n"

\* the import lines name exactly the referenced symbols that an artifact of
\* the given list defines, each from the file of its defining artifact
ImportsTheDefiners(text, result, list, isSystemCollection, referenced) ==
  /\ \A n \in 1..Len(referenced) :
       \A k \in DefinersOf(list, referenced[n]) :
         includes(text, ImportLineOf(referenced[n], list[k], isSystemCollection))
  /\ Occurrences(text, "import {")
       = Cardinality({n \in 1..Len(referenced) : DefinersOf(list, referenced[n]) # {}})

\* C26: whatever the order of the artifact list, generateImportStatements
\* emits one import line for each referenced name that an artifact of the
\* list defines, with the referenced schema and type symbols and the path of
\* the defining artifact's file, and no other import line.
C26_ImportsResolveToTheDefiningEntity ==
  (call.op = "generateImportStatements" /\ call.done) =>
    ImportsTheDefiners(call.output, call.input.result, call.input.results,
                       call.input.isSystemCollection,
                       extractRelatedCollections(call.input.result))

\* the same statement for the lists in which no namespaced artifact comes
\* before (or without) the regular artifact of its base name
NoShadowedName(list, referenced) ==
  \A n \in 1..Len(referenced) :
    findRelatedCollection(list, referenced[n]) \in DefinersOf(list, referenced[n]) \cup {0}

ImportsResolveWhenNotShadowed ==
  (call.op = "generateImportStatements" /\ call.done
     /\ NoShadowedName(call.input.results, extractRelatedCollections(call.input.result))) =>
    ImportsTheDefiners(call.output, call.input.result, call.input.results,
                       call.input.isSystemCollection,
                       extractRelatedCollections(call.input.result))

\* the relation fields of the fetched collections
FetchedRelationFields ==
  UNION {{actualCollections[k].fields[f] : f \in {g \in 1..Len(actualCollections[k].fields) :
                                                   isRelationField(actualCollections[k].fields[g])}} :
         k \in 1..Len(actualCollections)}

\* C28: when both generators hold the same relationship records, they
\* return the same related collection name (or both none) for every relation
\* field of a fetched collection.
C28_GeneratorsResolveTheSameTarget ==
  zodRelationships = typeRelationships =>
    \A field \in FetchedRelationFields :
      Zod_getRelatedCollectionName(field, zodRelationships)
        = Type_getRelatedCollectionName(field, typeRelationships)

\* the same statement for the fields that are settled before either
\* generator searches its relationship records
SettledWithoutRecords(field) ==
  relatedCollectionNameWith(field, Null) = relatedCollectionNameWith(field, Threw)

GeneratorsAgreeWithoutRecords ==
  \A field \in FetchedRelationFields :
    (SettledWithoutRecords(field) \/ (zodRelationships = <<>> /\ typeRelationships = <<>>)) =>
      Zod_getRelatedCollectionName(field, zodRelationships)
        = Type_getRelatedCollectionName(field, typeRelationships)

\* C29: the schema name a relation field emits for a target collection is
\* the schema name generateSchema declares for that collection, which is
\* 'Drx' + the singular name used as graph key and import-lookup name +
\* 'Schema'.
C29_ReferencedNameIsDeclaredName ==
  (call.op = "relatedSchemaName" /\ call.done) =>
    /\ call.output = schemaNameOf([collection |-> call.input])
    /\ call.output = "Drx" \o singularOf(call.input) \o "Schema"

\* the same statement for the regular targets
ReferencedNameIsDeclaredNameOfRegular ==
  (call.op = "relatedSchemaName" /\ call.done /\ ~startsWith(call.input, "directus_")) =>
    /\ call.output = schemaNameOf([collection |-> call.input])
    /\ call.output = "Drx" \o singularOf(call.input) \o "Schema"

\* the namespaced targets for which the two names differ
ReferencedNameDiffers ==
  /\ call.op = "relatedSchemaName"
  /\ call.done
  /\ call.output # schemaNameOf([collection |-> call.input])

\* C30: for every PascalCase form of a collection name, the singular name
\* the validator generator derives (StringUtils.toSingular, also the graph
\* key and the name in import lines) is the one the type generator derives
\* (TypeGenerator.toSingular).
C30_GeneratorsDeriveTheSameSingular ==
  (call.op = "toSingular" /\ call.done /\ call.input = toPascalCase(call.input)) =>
    call.output = TypeGenerator_toSingular(call.input)

====
